---------------------------- MODULE Spec2Model ----------------------------
(***************************************************************************)
(* A model of pack-stack's card detector: the Rectangle geometry of        *)
(* data.rs, the ideal boundary (get_corners) and the side scoring of       *)
(* card.rs, and the windowed Canny engine of edge.rs.                      *)
(*                                                                         *)
(* Pure functions of the source are operators computed as the source       *)
(* computes them; f32 arithmetic is carried out on (sign, 24-bit mantissa, *)
(* exponent) triples with round-to-nearest-even, usize arithmetic on       *)
(* naturals with every panicking path (assert!, index out of range,        *)
(* subtraction below zero) made an explicit Panic outcome.                 *)
(***************************************************************************)
EXTENDS Integers, Sequences, FiniteSets, TLC

VARIABLES
    op,        \* the last operation applied ("init" before any)
    rect,      \* data.rs: the Rectangle the geometry operation was applied to
    arg,       \* data.rs: the operation's arguments: [n, bound] / [other]
    out,       \* data.rs: the Rectangle the operation returned, or Panic
    flag,      \* data.rs: what contains returned
    width,     \* card.rs: the frame's width
    height,    \* card.rs: the frame's height
    boundary,  \* card.rs: get_corners(width, height), NoRect before the call
    detector,  \* card.rs: the Detector, its Canny and the Canny's buffers
    frame,     \* the RgbaImage the caller hands to detect
    sides,     \* card.rs: per side, what the last detect counted
    verdict,   \* card.rs: what the last detect returned
    held,      \* edge.rs: the Window the caller holds
    iter,      \* edge.rs: the iterator gradient() or process() returned;
               \* lib.rs: the LinePixels get_line_pixels returned
    yielded,   \* the Points the iterator's next() has returned
    engine,    \* edge.rs: the Canny the caller built, with its buffers
    before,    \* the frame as it was handed to the last detect
    calls,     \* edge.rs: how many times the Canny's detect has run
    seen       \* edge.rs: the frames handed to the Canny's detect, in order

vars == <<op, rect, arg, out, flag, width, height, boundary,
          detector, frame, sides, verdict, held, iter, yielded,
          engine, before, calls, seen>>

(***************************************************************************)
(* Bounds of the model.                                                    *)
(***************************************************************************)
\* largest coordinate of a Rectangle handed to a data.rs operation
MaxCoord == 3
\* largest n handed to grow / shrink / clamped_grow / clamped_shrink
MaxN == 3
\* largest frame width and height handed to get_corners
MaxDim == 150
\* width and height of the frames handed to Detector::detect
FrameW == 40
FrameH == 56
\* largest x and y of a corner of a window handed to gradient() and process()
MaxWinX == 7
MaxWinY == 5
\* largest x at which an iterator that has not ended is called again
MaxRun == 12
\* the frames handed to a Canny the caller built are CannyW x CannyH
CannyW == 9
CannyH == 8
\* the most calls of Canny::detect on one frame
MaxCalls == 2
\* the frames on which the default Detector's detect is followed to its end,
\* the smallest that leave its strips inside the frame
CardW == 80
CardH == 112
\* how many frame widths and heights above FrameW build is called with
SpanW == 6
SpanH == 20
\* the largest width and height of the corners handed to get_line_pixels
MaxSide == 9
\* the largest weight handed to get_line_pixels
MaxWeight == 3
\* largest x and y at which a LinePixels that has not ended is called again
MaxLine == 24

\* the outcome of a call that panicked, in place of the Rectangle it returns
Panic == <<"panic">>
\* no Rectangle (yet)
NoRect == <<>>
\* the outcome of a usize subtraction below zero, in place of the number
Underflow == -1

(***************************************************************************)
(* f32.  A value is [k, s, m, e]: k = "fin" stands for s * m * 2^e with    *)
(* m = 0 or 2^23 <= m < 2^24; k = "inf" and k = "nan" are the two special  *)
(* results a division by zero produces.  Every operation rounds its exact  *)
(* result to nearest, ties to even, as IEEE 754 binary32 does.  Subnormals *)
(* and exponent overflow are out of the range of every value computed      *)
(* here (magnitudes between 2^-40 and 2^40).                               *)
(***************************************************************************)
TwoPow(k) == IF k <= 0 THEN 1 ELSE 2 ^ k

\* the number of bits of n
RECURSIVE BitLen(_)
BitLen(n) ==
    IF n >= 65536 THEN 16 + BitLen(n \div 65536)
    ELSE IF n >= 256 THEN 8 + BitLen(n \div 256)
    ELSE IF n >= 16 THEN 4 + BitLen(n \div 16)
    ELSE IF n >= 4 THEN 2 + BitLen(n \div 4)
    ELSE IF n >= 2 THEN 2
    ELSE n

F32Zero == [k |-> "fin", s |-> 1, m |-> 0, e |-> 0]
F32NaN == [k |-> "nan", s |-> 1, m |-> 0, e |-> 0]
F32Inf(s) == [k |-> "inf", s |-> s, m |-> 0, e |-> 0]

\* q * 2^e once rounding has carried q up to 2^24
F32Carry(s, q, e) ==
    IF q = 16777216
    THEN [k |-> "fin", s |-> s, m |-> 8388608, e |-> e + 1]
    ELSE [k |-> "fin", s |-> s, m |-> q, e |-> e]

\* (q + r / (2 * half)) * 2^e rounded to nearest, ties to even; sticky
\* tells of a fraction below r
F32Nearest(s, q, r, half, e, sticky) ==
    F32Carry(s,
             IF r > half \/ (r = half /\ (sticky \/ q % 2 = 1))
             THEN q + 1 ELSE q,
             e)

\* n * 2^e with the d = BitLen(n) - 24 bits that do not fit dropped
F32Shift(s, n, e, sticky, d) ==
    IF d <= 0
    THEN [k |-> "fin", s |-> s, m |-> n * TwoPow(0 - d), e |-> e + d]
    ELSE F32Nearest(s, n \div TwoPow(d), n % TwoPow(d), TwoPow(d - 1),
                    e + d, sticky)

\* The f32 nearest to s * (n + f) * 2^e, where 0 <= n < 2^31 and f is a
\* fraction in [0, 1) that is non-zero exactly when sticky holds.
F32Round(s, n, e, sticky) ==
    IF n = 0 THEN [F32Zero EXCEPT !.s = s]
    ELSE F32Shift(s, n, e, sticky, BitLen(n) - 24)

\* `n as f32` for an unsigned n
F32FromInt(n) == F32Round(1, n, 0, FALSE)

\* seven more bits of the long division of r by d (r < d < 2^24), appended
\* to q
DivBits(qr, d) ==
    <<qr[1] * 128 + (qr[2] * 128) \div d, (qr[2] * 128) % d>>

\* the quotient <<q, r>> of a division carried 28 bits on, rounded
F32Quotient(s, qr, e) == F32Round(s, qr[1], e, qr[2] # 0)

\* x / y
F32Div(x, y) ==
    IF x.k = "nan" \/ y.k = "nan" THEN F32NaN
    ELSE IF x.k = "inf" THEN (IF y.k = "inf" THEN F32NaN ELSE F32Inf(x.s * y.s))
    ELSE IF y.k = "inf" THEN [F32Zero EXCEPT !.s = x.s * y.s]
    ELSE IF y.m = 0 THEN (IF x.m = 0 THEN F32NaN ELSE F32Inf(x.s * y.s))
    ELSE IF x.m = 0 THEN [F32Zero EXCEPT !.s = x.s * y.s]
    ELSE F32Quotient(x.s * y.s,
                     DivBits(DivBits(DivBits(DivBits(
                         <<x.m \div y.m, x.m % y.m>>, y.m), y.m), y.m), y.m),
                     x.e - y.e - 28)

\* x * y, the 48-bit product of the mantissas built from 12-bit halves
F32Mul(x, y) ==
    IF x.k = "nan" \/ y.k = "nan" THEN F32NaN
    ELSE IF x.k = "inf" \/ y.k = "inf"
         THEN (IF (x.k = "fin" /\ x.m = 0) \/ (y.k = "fin" /\ y.m = 0)
               THEN F32NaN ELSE F32Inf(x.s * y.s))
    ELSE IF x.m = 0 \/ y.m = 0 THEN [F32Zero EXCEPT !.s = x.s * y.s]
    ELSE LET a == x.m \div 4096
             b == x.m % 4096
             c == y.m \div 4096
             d == y.m % 4096
             lo == b * d
             t == a * d + b * c + (lo \div 4096)
             hi == a * c + (t \div 4096)
             low == (t % 4096) * 4096 + (lo % 4096)
         IN  F32Round(x.s * y.s, hi * 16 + (low \div 1048576),
                      x.e + y.e + 20, low % 1048576 # 0)

\* x > y (false when either is NaN)
F32Gt(x, y) ==
    IF x.k = "nan" \/ y.k = "nan" THEN FALSE
    ELSE IF x.k = "inf" THEN x.s = 1 /\ ~(y.k = "inf" /\ y.s = 1)
    ELSE IF y.k = "inf" THEN y.s = -1
    ELSE IF x.m = 0 /\ y.m = 0 THEN FALSE
    ELSE IF x.m = 0 THEN y.s = -1
    ELSE IF y.m = 0 THEN x.s = 1
    ELSE IF x.s # y.s THEN x.s = 1
    ELSE LET bigger == x.e > y.e \/ (x.e = y.e /\ x.m > y.m)
             smaller == x.e < y.e \/ (x.e = y.e /\ x.m < y.m)
         IN  IF x.s = 1 THEN bigger ELSE smaller

\* `x.floor() as usize` for a finite x >= 0
F32FloorToUsize(x) ==
    IF x.k # "fin" \/ x.m = 0 \/ x.s = -1 THEN 0
    ELSE IF x.e >= 0 THEN x.m * TwoPow(x.e)
    ELSE IF 0 - x.e >= 24 THEN 0
    ELSE x.m \div TwoPow(0 - x.e)

\* |x| and -x
F32Abs(x) == [x EXCEPT !.s = 1]
F32Neg(x) == [x EXCEPT !.s = 0 - x.s]

\* m8 shifted right by d bits: what is left and whether bits were lost
F32Aligned(m8, d) ==
    IF d > 26 THEN <<0, TRUE>>
    ELSE <<m8 \div TwoPow(d), m8 % TwoPow(d) # 0>>

\* big plus a smaller operand of sign ss aligned to it as al
F32Sum(big, ss, al) ==
    IF big.s = ss
    THEN F32Round(big.s, big.m * 8 + al[1], big.e - 3, al[2])
    ELSE IF big.m * 8 = al[1] /\ ~al[2] THEN F32Zero
    ELSE F32Round(big.s, big.m * 8 - al[1] - (IF al[2] THEN 1 ELSE 0),
                  big.e - 3, al[2])

\* x + y for finite x and y: the smaller operand is aligned to the larger
\* with three guard bits and a sticky bit, then the sum is rounded
F32Add(x, y) ==
    IF x.m = 0 THEN y
    ELSE IF y.m = 0 THEN x
    ELSE IF x.e > y.e \/ (x.e = y.e /\ x.m >= y.m)
    THEN F32Sum(x, y.s, F32Aligned(y.m * 8, x.e - y.e))
    ELSE F32Sum(y, x.s, F32Aligned(x.m * 8, y.e - x.e))

F32Sub(x, y) == F32Add(x, F32Neg(y))

\* x >= y, x < y for x and y that are not NaN
F32Ge(x, y) == ~F32Gt(y, x)
F32Lt(x, y) == F32Gt(y, x)

\* `n as f32` for a signed n
F32FromSigned(n) == IF n < 0 THEN F32Neg(F32FromInt(0 - n)) ELSE F32FromInt(n)

(***************************************************************************)
(* data.rs: Point and Rectangle.  A Point is <<x, y>>, a Rectangle         *)
(* <<top_left, bottom_right>>.                                             *)
(***************************************************************************)
Left(r) == r[1][1]
Top(r) == r[1][2]
Right(r) == r[2][1]
Bottom(r) == r[2][2]

\* the invariant Rectangle::new asserts
Valid(r) == Right(r) > Left(r) /\ Bottom(r) > Top(r)

\* Rectangle::new: the assertion fails (a panic) or the value is made
RectangleNew(top_left, bottom_right) ==
    IF bottom_right[1] > top_left[1] /\ bottom_right[2] > top_left[2]
    THEN <<top_left, bottom_right>>
    ELSE Panic

from_dimensions(w, h) == RectangleNew(<<0, 0>>, <<w, h>>)

RectWidth(r) == Right(r) - Left(r)
RectHeight(r) == Bottom(r) - Top(r)

grow(r, n) ==
    IF n <= Left(r) /\ n <= Top(r)
    THEN RectangleNew(<<Left(r) - n, Top(r) - n>>, <<Right(r) + n, Bottom(r) + n>>)
    ELSE Panic

shrink(r, n) ==
    IF n <= Right(r) /\ n <= Bottom(r)
    THEN RectangleNew(<<Left(r) + n, Top(r) + n>>, <<Right(r) - n, Bottom(r) - n>>)
    ELSE Panic

clamp_sub(value, n, min) == IF n + min > value THEN min ELSE value - n

\* clamp_add stopping at max itself
clamp_add_to_max(value, n, max) == IF value + n < max THEN value + n ELSE max

\* std::cmp::min(value + n + 1, max) - 1; the subtraction panics below zero
clamp_add(value, n, max) ==
    LET least == IF value + n + 1 < max THEN value + n + 1 ELSE max
    IN  IF least = 0 THEN Underflow ELSE least - 1

\* clamped_grow that lets the bottom right corner pass the bound
clamped_grow_past(r, n, b) ==
    RectangleNew(<<clamp_sub(Left(r), n, Left(b)), clamp_sub(Top(r), n, Top(b))>>,
                 <<Right(r) + n, Bottom(r) + n>>)

clamped_grow(r, n, b) ==
    LET x0 == clamp_sub(Left(r), n, Left(b))
        y0 == clamp_sub(Top(r), n, Top(b))
        x1 == clamp_add(Right(r), n, Right(b))
        y1 == clamp_add(Bottom(r), n, Bottom(b))
    IN  IF x1 = Underflow \/ y1 = Underflow THEN Panic
        ELSE RectangleNew(<<x0, y0>>, <<x1, y1>>)

clamped_shrink(r, n, b) ==
    LET x0 == clamp_add(Left(r), n, Right(b))
        y0 == clamp_add(Top(r), n, Bottom(b))
        x1 == clamp_sub(Right(r), n, Left(b))
        y1 == clamp_sub(Bottom(r), n, Top(b))
    IN  IF x0 = Underflow \/ y0 = Underflow THEN Panic
        ELSE RectangleNew(<<x0, y0>>, <<x1, y1>>)

\* contains letting the left edges coincide
contains_left_shared(r, other) ==
    /\ Left(r) <= Left(other)
    /\ Top(r) < Top(other)
    /\ Right(r) > Right(other)
    /\ Bottom(r) > Bottom(other)

contains(r, other) ==
    /\ Left(r) < Left(other)
    /\ Top(r) < Top(other)
    /\ Right(r) > Right(other)
    /\ Bottom(r) > Bottom(other)

(***************************************************************************)
(* card.rs: the ideal boundary.                                            *)
(***************************************************************************)
\* const RATIO: f32 = 5.0 / 7.0
RATIO == F32Div(F32FromInt(5), F32FromInt(7))

\* const MARGIN: f32 = 0.05, the f32 nearest to 5/100
MARGIN == F32Div(F32FromInt(5), F32FromInt(100))

\* get_corners taking the larger of the two candidates (`<` for `>`)
get_corners_larger(w, h) ==
    LET fh == F32FromInt(h)
        fw == F32FromInt(w)
        wide == F32Gt(RATIO, F32Div(fw, fh))
        cw == IF wide THEN F32Mul(fh, RATIO) ELSE fw
        ch == IF wide THEN fh ELSE F32Div(fw, RATIO)
        margin == F32FloorToUsize(F32Mul(cw, MARGIN))
    IN  <<<<margin, margin>>,
          <<F32FloorToUsize(cw) - margin, F32FloorToUsize(ch) - margin>>>>

\* get_corners leaving the bottom right corner where the frame ends
get_corners_no_inset(w, h) ==
    LET fh == F32FromInt(h)
        fw == F32FromInt(w)
        wide == F32Gt(F32Div(fw, fh), RATIO)
        cw == IF wide THEN F32Mul(fh, RATIO) ELSE fw
        ch == IF wide THEN fh ELSE F32Div(fw, RATIO)
        margin == F32FloorToUsize(F32Mul(cw, MARGIN))
    IN  <<<<margin, margin>>, <<F32FloorToUsize(cw), F32FloorToUsize(ch)>>>>

\* get_corners taking the margin from the frame's width
get_corners_frame_margin(w, h) ==
    LET fh == F32FromInt(h)
        fw == F32FromInt(w)
        wide == F32Gt(F32Div(fw, fh), RATIO)
        cw == IF wide THEN F32Mul(fh, RATIO) ELSE fw
        ch == IF wide THEN fh ELSE F32Div(fw, RATIO)
        margin == F32FloorToUsize(F32Mul(fw, MARGIN))
    IN  <<<<margin, margin>>,
          <<F32FloorToUsize(cw) - margin, F32FloorToUsize(ch) - margin>>>>

\* get_corners builds its Rectangle with the tuple constructor, not with
\* Rectangle::new: no assertion is run on the result.
get_corners(w, h) ==
    LET fh == F32FromInt(h)
        fw == F32FromInt(w)
        wide == F32Gt(F32Div(fw, fh), RATIO)
        cw == IF wide THEN F32Mul(fh, RATIO) ELSE fw
        ch == IF wide THEN fh ELSE F32Div(fw, RATIO)
        margin == F32FloorToUsize(F32Mul(cw, MARGIN))
    IN  <<<<margin, margin>>,
          <<F32FloorToUsize(cw) - margin, F32FloorToUsize(ch) - margin>>>>

(***************************************************************************)
(* edge.rs: the window and its iterator.  A raster of width w is a         *)
(* sequence: the pixel at (x, y) is its element y * w + x + 1.             *)
(***************************************************************************)
NoPoint == <<>>
\* the outcome of a call that panicked, where its value is a record
Failed == [ok |-> FALSE]

min(a, b) == IF a < b THEN a ELSE b
max(a, b) == IF a > b THEN a ELSE b

\* RectangleInRectangleWindow::new: asserts that outer contains inner
RectangleInRectangleWindowNew(outer, inner) ==
    IF contains(outer, inner)
    THEN [ok |-> TRUE, outer |-> outer, inner |-> inner]
    ELSE Failed

\* Window::process: the window its iterator walks, outer.shrink(1) around
\* inner.grow(1), built without the assertion of new
ProcessWindow(win) ==
    LET o == shrink(win.outer, 1)
        i == grow(win.inner, 1)
    IN  IF o = Panic \/ i = Panic
        THEN Failed
        ELSE [ok |-> TRUE, outer |-> o, inner |-> i]

\* an iterator walking every point of outer, inner's among them
IteratorNextThroughInner(win, next) ==
    IF next[1] = Right(win.outer) - 1
    THEN IF next[2] = Bottom(win.outer) - 1
         THEN NoPoint
         ELSE <<Left(win.outer), next[2] + 1>>
    ELSE <<next[1] + 1, next[2]>>

\* RectangleInRectangleWindowIterator::next: the point that follows `next`.
\* inner[0][0] - 1 goes below zero where inner's left is 0: built with overflow
\* checks the subtraction panics, built without them it wraps to usize::MAX,
\* which no x equals
IteratorNextWrapping(win, next) ==
    IF /\ next[1] = Left(win.inner) - 1
       /\ next[2] >= Top(win.inner)
       /\ next[2] < Bottom(win.inner)
    THEN <<Right(win.inner), next[2]>>
    ELSE IF next[1] = Right(win.outer) - 1
    THEN IF next[2] = Bottom(win.outer) - 1
         THEN NoPoint
         ELSE <<Left(win.outer), next[2] + 1>>
    ELSE <<next[1] + 1, next[2]>>

\* the same built with overflow checks
IteratorNext(win, next) ==
    IF Left(win.inner) = 0 THEN Panic ELSE IteratorNextWrapping(win, next)

\* a loop of the program: Step is applied to s until Done holds.  fuel is a
\* number of passes the loop cannot exceed; halving it keeps the evaluation
\* of a long loop shallow
RECURSIVE Repeat(_, _, _, _)
Repeat(Step(_), Done(_), fuel, s) ==
    IF Done(s) \/ fuel <= 0 THEN s
    ELSE IF fuel = 1 THEN Step(s)
    ELSE Repeat(Step, Done, fuel - fuel \div 2,
                Repeat(Step, Done, fuel \div 2, s))

\* RectangleWindowIterator::next: the point that follows `next`;
\* rectangle.0[1][0] - 1 and rectangle.0[1][1] - 1 go below zero where the
\* rectangle's right or bottom is 0
RectangleWindowNext(rectangle, next) ==
    IF Right(rectangle) = 0 THEN Panic
    ELSE IF next[1] = Right(rectangle) - 1
    THEN IF Bottom(rectangle) = 0 THEN Panic
         ELSE IF next[2] = Bottom(rectangle) - 1 THEN NoPoint
         ELSE <<Left(rectangle), next[2] + 1>>
    ELSE <<next[1] + 1, next[2]>>

\* RectangleWindow { rectangle }: the window of one Rectangle
RectangleWindowOf(rectangle) == [ok |-> TRUE, rectangle |-> rectangle]

\* which of the two implementors of Window a window is
IsRectangleWindow(win) == "rectangle" \in DOMAIN win

\* Window::gradient: the iterator, its own copy of the window and the point
\* its next() returns next
WindowGradient(win) ==
    [ok |-> TRUE, extent |-> "gradient", over |-> win,
     next |-> IF IsRectangleWindow(win) THEN win.rectangle[1]
              ELSE win.outer[1]]

\* RectangleWindow::process: the iterator over rectangle.shrink(1)
RectangleWindowProcess(win) ==
    LET r == shrink(win.rectangle, 1)
    IN  IF r = Panic THEN Failed
        ELSE [ok |-> TRUE, extent |-> "process",
              over |-> RectangleWindowOf(r), next |-> r[1]]

\* RectangleInRectangleWindow::process: the iterator over the shrunk outer
\* and the grown inner
RectangleInRectangleWindowProcess(win) ==
    LET p == ProcessWindow(win)
    IN  IF p.ok
        THEN [ok |-> TRUE, extent |-> "process", over |-> p,
              next |-> p.outer[1]]
        ELSE Failed

\* Window::process
WindowProcess(win) ==
    IF IsRectangleWindow(win) THEN RectangleWindowProcess(win)
    ELSE RectangleInRectangleWindowProcess(win)

\* what next() leaves in self.next, or Panic; checks tells whether the build
\* checks arithmetic for overflow
WindowIteratorNext(it, checks) ==
    IF IsRectangleWindow(it.over)
    THEN RectangleWindowNext(it.over.rectangle, it.next)
    ELSE IF checks THEN IteratorNext(it.over, it.next)
    ELSE IteratorNextWrapping(it.over, it.next)

\* the points the iterator yields, from `first` on, to a loop that indexes
\* a buffer of size entries at y * w + x: the loop panics at the first point
\* outside the buffer.  Along a row x grows and from row to row y grows, so
\* fewer than size * size points lie inside it
IteratorPoints(win, w, size, first) ==
    LET Done(s) == s.next = NoPoint
        Step(s) ==
            IF s.next = Panic \/ s.next[2] * w + s.next[1] >= size
            THEN [next |-> NoPoint, acc |-> Append(s.acc, Panic)]
            ELSE [next |-> WindowIteratorNext([over |-> win, next |-> s.next],
                                              TRUE),
                  acc |-> Append(s.acc, s.next)]
    IN  Repeat(Step, Done, size * size + 1, [next |-> first, acc |-> <<>>]).acc

\* for [x, y] in window.gradient()
GradientPoints(win, w, size) ==
    IteratorPoints(win, w, size, WindowGradient(win).next)

\* for [x, y] in window.process()
ProcessPoints(win, w, size) ==
    LET p == WindowProcess(win)
    IN  IF p.ok THEN IteratorPoints(p.over, w, size, p.next) ELSE <<Panic>>

(***************************************************************************)
(* edge.rs: the Canny stages.  The buffers gx, gy, filtered and supressed  *)
(* are sequences of width * height numbers.  The samples are u8 and the    *)
(* Sobel weights sum to 4 in absolute value on each side, so |h|, |v| are  *)
(* at most 1020 and h * h + v * v, at most 2 080 800, is an integer that   *)
(* f32 holds exactly: filtered and supressed hold it as that integer.      *)
(***************************************************************************)
VERTICAL_SOBEL == <<-1, -2, -1, 0, 0, 0, 1, 2, 1>>
HORIZONTAL_SOBEL == <<-1, 0, 1, -2, 0, 2, -1, 0, 1>>

\* min(size + size - 1, max(size, size + at + k - 3 / 2)) - size
SamplePosition(size, at, k) ==
    min(size + size - 1, max(size, size + at + k - 1)) - size

accumulate(acc, pixel, weight) == acc + pixel * weight

clamp(x) ==
    IF x < 32767 THEN (IF x > -32768 THEN x ELSE -32768) ELSE 32767

\* the k_y, k_x loops at one point: <<h, v>>.  p holds the nine samples in
\* the order the loops read them
GradientAt(image, w, h, x, y) ==
    LET ys == [k \in 0 .. 2 |-> SamplePosition(h, y, k)]
        xs == [k \in 0 .. 2 |-> SamplePosition(w, x, k)]
        p == [j \in 1 .. 9 |->
                 image[ys[(j - 1) \div 3] * w + xs[(j - 1) % 3] + 1]]
        Acc(kernel) ==
            p[1] * kernel[1] + p[2] * kernel[2] + p[3] * kernel[3]
                + p[4] * kernel[4] + p[5] * kernel[5] + p[6] * kernel[6]
                + p[7] * kernel[7] + p[8] * kernel[8] + p[9] * kernel[9]
    IN  <<clamp(Acc(HORIZONTAL_SOBEL)), clamp(Acc(VERTICAL_SOBEL))>>

\* a gradient that keeps the larger of the magnitude it finds in the
\* buffer and the one it computes
gradient_kept(w, h, image, pts, b) ==
    LET Done(s) == ~s.ok \/ s.k > Len(pts)
        Step(s) ==
            IF pts[s.k] = Panic THEN Failed
            ELSE LET x == pts[s.k][1]
                     y == pts[s.k][2]
                     hv == GradientAt(image, w, h, x, y)
                     i == y * w + x + 1
                     m == hv[1] * hv[1] + hv[2] * hv[2]
                 IN  [s EXCEPT !.k = s.k + 1,
                               !.gx[i] = hv[1], !.gy[i] = hv[2],
                               !.filtered[i] =
                                   IF s.filtered[i] > m THEN s.filtered[i]
                                   ELSE m]
    IN  Repeat(Step, Done, Len(pts), [b EXCEPT !.k = 1])

\* gradient: the loop over the points of window.gradient().  b holds the
\* buffers, b.k the position of the loop
gradient(w, h, image, pts, b) ==
    LET Done(s) == ~s.ok \/ s.k > Len(pts)
        Step(s) ==
            IF pts[s.k] = Panic THEN Failed
            ELSE LET x == pts[s.k][1]
                     y == pts[s.k][2]
                     hv == GradientAt(image, w, h, x, y)
                     i == y * w + x + 1
                 IN  [s EXCEPT !.k = s.k + 1,
                               !.gx[i] = hv[1], !.gy[i] = hv[2],
                               !.filtered[i] = hv[1] * hv[1] + hv[2] * hv[2]]
    IN  Repeat(Step, Done, Len(pts), [b EXCEPT !.k = 1])

\* f32::consts::PI, 0x40490FDB
F32PI == [k |-> "fin", s |-> 1, m |-> 13176795, e |-> -22]
ONEQTR_PI == F32Div(F32PI, F32FromInt(4))
THRQTR_PI == F32Div(F32Mul(F32FromInt(3), F32PI), F32FromInt(4))
RADIANS_TO_DEGREES == F32Div(F32FromInt(180), F32PI)
\* the f32 literals of atan2_approx; 1e-10 is 2^-10 / 5^10
Tiny == LET q == F32Div(F32FromInt(1), F32FromInt(9765625))
        IN  [q EXCEPT !.e = q.e - 10]
Cubic == F32Div(F32FromInt(1963), F32FromInt(10000))
Linear == F32Div(F32FromInt(9817), F32FromInt(10000))

\* (x + abs_y) / (abs_y - x) where x < 0.0, else (x - abs_y) / (x + abs_y)
Atan2Ratio(x, abs_y) ==
    IF F32Lt(x, F32Zero)
    THEN F32Div(F32Add(x, abs_y), F32Sub(abs_y, x))
    ELSE F32Div(F32Sub(x, abs_y), F32Add(x, abs_y))

\* angle + (0.1963 * r * r - 0.9817) * r
Atan2Angle(angle, r) ==
    F32Add(angle, F32Mul(F32Sub(F32Mul(F32Mul(Cubic, r), r), Linear), r))

atan2_approx(y, x) ==
    IF F32Lt(y, F32Zero)
    THEN F32Neg(Atan2Angle(IF F32Lt(x, F32Zero) THEN THRQTR_PI ELSE ONEQTR_PI,
                           Atan2Ratio(x, F32Add(F32Abs(y), Tiny))))
    ELSE Atan2Angle(IF F32Lt(x, F32Zero) THEN THRQTR_PI ELSE ONEQTR_PI,
                    Atan2Ratio(x, F32Add(F32Abs(y), Tiny)))

\* the bounds of the bands of non_maximum_suppression
Deg22_5 == F32Div(F32FromInt(45), F32FromInt(2))
Deg67_5 == F32Div(F32FromInt(135), F32FromInt(2))
Deg112_5 == F32Div(F32FromInt(225), F32FromInt(2))
Deg157_5 == F32Div(F32FromInt(315), F32FromInt(2))

\* if angle < 0.0 { angle += 180.0 }
FoldAngle(angle) ==
    IF F32Lt(angle, F32Zero) THEN F32Add(angle, F32FromInt(180)) ELSE angle

\* the band of an angle: 0 for [157.5, 180] and [0, 22.5), 1 for
\* [22.5, 67.5), 2 for [67.5, 112.5), 3 for [112.5, 157.5), and 4 where the
\* code is unreachable!()
BandOf(angle) ==
    IF F32Ge(angle, Deg157_5) \/ F32Lt(angle, Deg22_5) THEN 0
    ELSE IF F32Ge(angle, Deg22_5) /\ F32Lt(angle, Deg67_5) THEN 1
    ELSE IF F32Ge(angle, Deg67_5) /\ F32Lt(angle, Deg112_5) THEN 2
    ELSE IF F32Ge(angle, Deg112_5) /\ F32Lt(angle, Deg157_5) THEN 3
    ELSE 4

\* the band of the direction of the gradient (x_gradient, y_gradient)
DirectionBand(x_gradient, y_gradient) ==
    BandOf(FoldAngle(F32Mul(atan2_approx(F32FromSigned(y_gradient),
                                         F32FromSigned(x_gradient)),
                            RADIANS_TO_DEGREES)))

\* the indices (from 0) of the two magnitudes the point is compared with;
\* a negative index stands for a subtraction that went below zero
Compared(band, x, y, w) ==
    IF band = 0 THEN <<y * w + x - 1, y * w + x + 1>>
    ELSE IF band = 1
    THEN <<(y + 1) * w + x + 1, IF y = 0 THEN -1 ELSE (y - 1) * w + x - 1>>
    ELSE IF band = 2
    THEN <<IF y = 0 THEN -1 ELSE (y - 1) * w + x, (y + 1) + x>>
    ELSE <<(y + 1) * w + x - 1, IF y = 0 THEN -1 ELSE (y - 1) * w + x + 1>>

\* one pass of non_maximum_suppression at the point of index i (from 1),
\* whose direction is in band d and whose compared indices are c
SuppressAt(s, i, d, c) ==
    IF \/ d = 4
       \/ c[1] < 0 \/ c[2] < 0
       \/ c[1] >= Len(s.filtered) \/ c[2] >= Len(s.filtered)
    THEN Failed
    ELSE [s EXCEPT !.k = s.k + 1,
                   !.supressed[i] =
                       IF \/ s.filtered[i] < s.filtered[c[1] + 1]
                          \/ s.filtered[i] < s.filtered[c[2] + 1]
                       THEN 0 ELSE s.filtered[i]]

SuppressIn(s, w, x, y, d) ==
    SuppressAt(s, y * w + x + 1, d, Compared(d, x, y, w))

\* non_maximum_suppression: the loop over the points of window.process().
\* The loop leaves gx and gy alone, so the band of each pair of gradients
\* it meets is worked out once
non_maximum_suppression(w, pts, b) ==
    LET met == {<<b.gx[p[2] * w + p[1] + 1], b.gy[p[2] * w + p[1] + 1]>> :
                    p \in {pts[j] : j \in 1 .. Len(pts)} \ {Panic}}
        band == [g \in met |-> DirectionBand(g[1], g[2])]
        Done(s) == ~s.ok \/ s.k > Len(pts)
        Step(s) ==
            IF pts[s.k] = Panic THEN Failed
            ELSE SuppressIn(s, w, pts[s.k][1], pts[s.k][2],
                            band[<<s.gx[pts[s.k][2] * w + pts[s.k][1] + 1],
                                   s.gy[pts[s.k][2] * w + pts[s.k][1] + 1]>>])
    IN  Repeat(Step, Done, Len(pts), [b EXCEPT !.k = 1])

\* the neighbours hysteresis looks at, fields .0 and .1 of neighbor_indices
Neighbours(nx, ny) ==
    <<<<nx + 1, ny>>, <<nx + 1, ny + 1>>, <<nx, ny + 1>>,
      <<nx - 1, ny - 1>>, <<nx - 1, ny>>, <<nx - 1, ny + 1>>>>

\* for neighbor_idx in &neighbor_indices, from the k-th neighbour.  c holds
\* what the loops only read: w, h, input, low and high (the squared
\* thresholds) and line_colour
RECURSIVE VisitNeighbours(_, _, _, _, _)
VisitNeighbours(c, img, edges, ns, k) ==
    IF k > Len(ns) THEN [ok |-> TRUE, img |-> img, edges |-> edges]
    ELSE LET nx == ns[k][1]
             ny == ns[k][2]
             i == ny * c.w + nx + 1
         IN  IF nx >= c.w \/ ny >= c.h THEN Failed
             ELSE IF c.input[i] >= c.low /\ img[i][1] # c.line_colour[1]
             THEN VisitNeighbours(c, [img EXCEPT ![i] = c.line_colour],
                                  Append(edges, ns[k]), ns, k + 1)
             ELSE VisitNeighbours(c, img, edges, ns, k + 1)

\* while !edges.is_empty(): edges is a stack, its top the last element;
\* nx - 1 and ny - 1 panic below zero.  A pixel is pushed when it takes the
\* line colour's red, so at most once
TrackEdges(c, img, edges) ==
    LET Done(s) == ~s.ok \/ s.edges = <<>>
        Step(s) ==
            LET top == s.edges[Len(s.edges)]
                rest == SubSeq(s.edges, 1, Len(s.edges) - 1)
            IN  IF top[1] = 0 \/ top[2] = 0 THEN Failed
                ELSE VisitNeighbours(c, s.img, rest,
                                     Neighbours(top[1], top[2]), 1)
    IN  Repeat(Step, Done, c.w * c.h + 1,
               [ok |-> TRUE, img |-> img, edges |-> edges])

\* the outer loop of hysteresis once the inner one is through
Tracked(t, k) ==
    IF t.ok THEN [ok |-> TRUE, img |-> t.img, k |-> k] ELSE Failed

\* hysteresis: the loop over the points of window.process()
hysteresis(c, img, pts) ==
    LET Done(s) == ~s.ok \/ s.k > Len(pts)
        Step(s) ==
            IF pts[s.k] = Panic THEN Failed
            ELSE LET x == pts[s.k][1]
                     y == pts[s.k][2]
                     i == y * c.w + x + 1
                 IN  IF x >= c.w \/ y >= c.h THEN Failed
                     ELSE IF /\ c.input[i] >= c.high
                             /\ s.img[i][1] # c.line_colour[1]
                     THEN Tracked(TrackEdges(
                                      c, [s.img EXCEPT ![i] = c.line_colour],
                                      <<pts[s.k]>>),
                                  s.k + 1)
                     ELSE [s EXCEPT !.k = s.k + 1]
    IN  Repeat(Step, Done, Len(pts), [ok |-> TRUE, img |-> img, k |-> 1])

\* the image crate's Rgba<u8> to Luma<u8> conversion of one pixel
Luma(p) == (2126 * p[1] + 7152 * p[2] + 722 * p[3]) \div 10000

\* Canny::new: the buffers are zeroed
CannyNew(w, h, low_threshold, high_threshold, line_colour, window) ==
    [width |-> w, height |-> h,
     low_threshold |-> low_threshold, high_threshold |-> high_threshold,
     line_colour |-> line_colour, window |-> window,
     gx |-> [i \in 1 .. w * h |-> 0], gy |-> [i \in 1 .. w * h |-> 0],
     filtered |-> [i \in 1 .. w * h |-> 0],
     supressed |-> [i \in 1 .. w * h |-> 0]]

\* the squared thresholds and what else the loops of hysteresis read
HysteresisInput(cn, n) ==
    [w |-> cn.width, h |-> cn.height, input |-> n.supressed,
     low |-> cn.low_threshold * cn.low_threshold,
     high |-> cn.high_threshold * cn.high_threshold,
     line_colour |-> cn.line_colour]

\* a detect that clears the line colour from the pixels that do not pass
\* the low threshold in this call
CannyMarkedAfresh(cn, n, t) ==
    IF t.ok
    THEN [ok |-> TRUE,
          img |-> [i \in 1 .. Len(t.img) |->
                      IF /\ t.img[i] = cn.line_colour
                         /\ n.supressed[i] < cn.low_threshold * cn.low_threshold
                      THEN <<255, 255, 255, 255>> ELSE t.img[i]],
          canny |-> [cn EXCEPT !.gx = n.gx, !.gy = n.gy,
                               !.filtered = n.filtered,
                               !.supressed = n.supressed]]
    ELSE Failed

\* Canny::detect from hysteresis on: n is what non_maximum_suppression left
CannyMarked(cn, n, t) ==
    IF t.ok
    THEN [ok |-> TRUE, img |-> t.img,
          canny |-> [cn EXCEPT !.gx = n.gx, !.gy = n.gy,
                               !.filtered = n.filtered,
                               !.supressed = n.supressed]]
    ELSE Failed

CannySuppressed(cn, src, process, n) ==
    IF n.ok
    THEN CannyMarked(cn, n, hysteresis(HysteresisInput(cn, n), src, process))
    ELSE Failed

\* Canny::detect from non_maximum_suppression on: g is what gradient left
CannyGradient(cn, src, process, g) ==
    IF g.ok
    THEN CannySuppressed(cn, src, process,
                         non_maximum_suppression(cn.width, process, g))
    ELSE Failed

\* Canny::detect: the Canny with its buffers refilled and the image with
\* the accepted pixels in line_colour, or Failed
CannyDetect(cn, src) ==
    CannyGradient(
        cn, src, ProcessPoints(cn.window, cn.width, cn.width * cn.height),
        gradient(cn.width, cn.height, [i \in 1 .. Len(src) |-> Luma(src[i])],
                 GradientPoints(cn.window, cn.width, cn.width * cn.height),
                 [ok |-> TRUE, k |-> 1, gx |-> cn.gx, gy |-> cn.gy,
                  filtered |-> cn.filtered, supressed |-> cn.supressed]))

(***************************************************************************)
(* card.rs: the Detector.                                                  *)
(***************************************************************************)
EDGE_COLOUR == <<0, 0, 0, 254>>
MISS_COLOUR == <<255, 0, 0, 255>>
HIT_COLOUR == <<0, 255, 0, 255>>

\* Detector::new once the window is built
DetectorOf(w, h, s, bnd, outer, inner, window) ==
    IF window.ok
    THEN [ok |-> TRUE,
          card_edge_width |-> s.card_edge_width,
          canny |-> CannyNew(w, h, s.low_threshold, s.high_threshold,
                             EDGE_COLOUR, window),
          boundary |-> bnd,
          inner_boundary |-> inner,
          outer_boundary |-> outer]
    ELSE Failed

\* a Detector whose Canny works on the whole of outer_boundary
DetectorWithinWhole(w, h, s, bnd, outer, inner) ==
    IF outer = Panic \/ inner = Panic THEN Failed
    ELSE DetectorOf(w, h, s, bnd, outer, inner, RectangleWindowOf(outer))

\* Detector::new once outer_boundary and inner_boundary are worked out
DetectorWithin(w, h, s, bnd, outer, inner) ==
    IF outer = Panic \/ inner = Panic THEN Failed
    ELSE DetectorOf(w, h, s, bnd, outer, inner,
                    RectangleInRectangleWindowNew(outer, inner))

\* Detector::new once image_rect and boundary are worked out
DetectorAround(w, h, s, image_rect, bnd) ==
    IF image_rect = Panic THEN Failed
    ELSE DetectorWithin(
             w, h, s, bnd,
             clamped_grow(bnd, s.detection_window_width \div 2,
                          image_rect),
             clamped_shrink(bnd, s.detection_window_width \div 2,
                            image_rect))

\* Detector::new; s holds card_edge_width, detection_window_width,
\* low_threshold and high_threshold
DetectorNew(w, h, s) ==
    DetectorAround(w, h, s, from_dimensions(w, h), get_corners(w, h))

\* Option<T>: None, or Some(v) holding v
None == <<>>
Some(v) == <<v>>
UnwrapOr(o, default) == IF o = None THEN default ELSE o[1]

\* DetectorBuilder::default(), every field None
DetectorBuilderDefault ==
    [card_edge_width |-> None, detection_window_width |-> None,
     low_threshold |-> None, high_threshold |-> None]

\* DetectorBuilder::build
Build(b, w, h) ==
    DetectorNew(w, h,
                [card_edge_width |-> UnwrapOr(b.card_edge_width, 3),
                 detection_window_width |->
                     UnwrapOr(b.detection_window_width, 20),
                 low_threshold |-> UnwrapOr(b.low_threshold, 150),
                 high_threshold |-> UnwrapOr(b.high_threshold, 200)])

\* CannyBuilder::new: the window is one Rectangle, a pixel short of the
\* frame's right and bottom
CannyBuilderWithWindow(w, h, window) ==
    [width |-> w, height |-> h, window |-> window,
     low_threshold |-> None, high_threshold |-> None, line_colour |-> None]

CannyBuilderNew(w, h) ==
    CannyBuilderWithWindow(
        w, h, RectangleWindowOf(<<<<0, 0>>, <<w - 1, h - 1>>>>))

\* CannyBuilder::build
CannyBuild(b) ==
    CannyNew(b.width, b.height,
             UnwrapOr(b.low_threshold, 150), UnwrapOr(b.high_threshold, 300),
             UnwrapOr(b.line_colour, <<0, 0, 0, 255>>), b.window)

\* the pixel of img (of width w) that a side's scan names: `at` runs along
\* the side and v across it
PixelAt(horizontal, w, at, v) ==
    IF horizontal THEN v * w + at + 1 ELSE at * w + v + 1

Outside(horizontal, w, h, at, v) ==
    IF horizontal THEN at >= w \/ v >= h ELSE v >= w \/ at >= h

\* (min..max).any(|v| *img.get_pixel(..) == EDGE_COLOUR) from v on: "hit",
\* "miss", or "panic" when get_pixel is asked for a pixel outside the image
RECURSIVE AnyEdge(_, _, _, _, _, _, _)
AnyEdge(img, horizontal, w, h, at, v, max_v) ==
    IF v >= max_v THEN "miss"
    ELSE IF Outside(horizontal, w, h, at, v) THEN "panic"
    ELSE IF img[PixelAt(horizontal, w, at, v)] = EDGE_COLOUR THEN "hit"
    ELSE AnyEdge(img, horizontal, w, h, at, v + 1, max_v)

\* for v in range { img.put_pixel(.., colour) } from v to last
RECURSIVE PutStrip(_, _, _, _, _, _, _, _)
PutStrip(img, horizontal, w, h, at, v, last, colour) ==
    IF v > last THEN [ok |-> TRUE, img |-> img]
    ELSE IF Outside(horizontal, w, h, at, v) THEN Failed
    ELSE PutStrip([img EXCEPT ![PixelAt(horizontal, w, at, v)] = colour],
                  horizontal, w, h, at, v + 1, last, colour)

\* whether a position without an edge pixel in its band counts as a hit:
\* (MISS_COLOUR, false) for the horizontal lines, (MISS_COLOUR, true) for
\* the vertical ones
MissCounts(horizontal) == ~horizontal

\* the filter closure applied to the positions of one side.  ln is the
\* side: horizontal, line (the boundary's coordinate), lo and hi (the band),
\* half (half the boundary's extent across the side), from, to, w, h, cew,
\* and checks, whether the build checks arithmetic for overflow.  s carries
\* the image, the position, the hits counted so far and the positions whose
\* band held an edge pixel.  line - cew below zero panics in a build with
\* overflow checks; without them it wraps to a number above line and the
\* range line - cew ..= line is empty
ScanLine(ln, img) ==
    LET Done(s) == ~s.ok \/ s.at >= ln.to
        Step(s) ==
            LET any == AnyEdge(s.img, ln.horizontal, ln.w, ln.h, s.at,
                               ln.lo, ln.hi)
                colour == IF any = "hit" THEN HIT_COLOUR ELSE MISS_COLOUR
                hit == IF any = "hit" THEN TRUE ELSE MissCounts(ln.horizontal)
                outward == ln.line < ln.half
                p == IF any = "panic"
                        \/ (outward /\ ln.cew > ln.line /\ ln.checks)
                     THEN Failed
                     ELSE IF outward /\ ln.cew > ln.line
                     THEN [ok |-> TRUE, img |-> s.img]
                     ELSE IF outward
                     THEN PutStrip(s.img, ln.horizontal, ln.w, ln.h, s.at,
                                   ln.line - ln.cew, ln.line, colour)
                     ELSE PutStrip(s.img, ln.horizontal, ln.w, ln.h, s.at,
                                   ln.line, ln.line + ln.cew, colour)
            IN  IF p.ok
                THEN [ok |-> TRUE, img |-> p.img, at |-> s.at + 1,
                      hits |-> s.hits + (IF hit THEN 1 ELSE 0),
                      found |-> IF any = "hit" THEN s.found \cup {s.at}
                                ELSE s.found]
                ELSE Failed
    IN  Repeat(Step, Done, ln.to - ln.from,
               [ok |-> TRUE, img |-> img, at |-> ln.from, hits |-> 0,
                found |-> {}])

\* the sides in the order detect scores them: top, bottom, left, right
Sides == 1 .. 4

\* the entries of horizontal_lines and vertical_lines
Line(d, side, checks) ==
    LET b == d.boundary
        i == d.inner_boundary
        o == d.outer_boundary
        horizontal == side <= 2
    IN  [horizontal |-> horizontal,
         line |-> IF side = 1 THEN Top(b) ELSE IF side = 2 THEN Bottom(b)
                  ELSE IF side = 3 THEN Left(b) ELSE Right(b),
         lo |-> IF side = 1 THEN Top(o) ELSE IF side = 2 THEN Bottom(i)
                ELSE IF side = 3 THEN Left(o) ELSE Right(i),
         hi |-> IF side = 1 THEN Top(i) ELSE IF side = 2 THEN Bottom(o)
                ELSE IF side = 3 THEN Left(i) ELSE Right(o),
         half |-> IF horizontal THEN RectHeight(b) \div 2
                  ELSE RectWidth(b) \div 2,
         from |-> IF horizontal THEN Left(b) ELSE Top(b),
         to |-> IF horizontal THEN Right(b) ELSE Bottom(b),
         length |-> IF horizontal THEN RectWidth(b) ELSE RectHeight(b),
         w |-> d.canny.width, h |-> d.canny.height,
         cew |-> d.card_edge_width, checks |-> checks]

\* hits as f32 / length as f32
Score(hits, length) == F32Div(F32FromInt(hits), F32FromInt(length))

\* s > 0.8
Passes(s) == F32Gt(s, F32Div(F32FromInt(8), F32FromInt(10)))

\* the verdict with two passing sides sufficing
VerdictOfTwo(scores) == Cardinality({s \in Sides : Passes(scores[s])}) >= 2

\* scores.into_iter().filter(|&s| s > 0.8).count() >= 3
Verdict(scores) == Cardinality({s \in Sides : Passes(scores[s])}) >= 3

\* the scan of one side added to those before it
Scanned(d, side, ln, s, acc) ==
    IF s.ok
    THEN [ok |-> TRUE, img |-> s.img,
          sides |-> Append(acc, [hits |-> s.hits, found |-> s.found,
                                 score |-> Score(s.hits, ln.length)])]
    ELSE Failed

\* the scan of one side; boundary.width() and boundary.height() panic
\* below zero
ScanSide(d, side, ln, img, acc) ==
    IF ln.length < 0 THEN Failed
    ELSE Scanned(d, side, ln, ScanLine(ln, img), acc)

\* the four scans of detect from `side` on, each on the image the one
\* before left
RECURSIVE ScanSides(_, _, _, _)
ScanSides(d, side, s, checks) ==
    IF side > 4 \/ ~s.ok THEN s
    ELSE ScanSides(d, side + 1,
                   ScanSide(d, side, Line(d, side, checks), s.img, s.sides),
                   checks)

\* detect once the scans are through
Judged(d, cn, sc) ==
    IF sc.ok
    THEN [ok |-> TRUE, img |-> sc.img,
          detector |-> [d EXCEPT !.canny = cn],
          sides |-> sc.sides,
          verdict |-> Verdict([s \in Sides |-> sc.sides[s].score])]
    ELSE Failed

\* detect once self.canny.detect(img) is through
Scored(d, cd, checks) ==
    IF cd.ok
    THEN Judged(d, cd.canny,
                ScanSides(d, 1, [ok |-> TRUE, img |-> cd.img, sides |-> <<>>],
                          checks))
    ELSE Failed

\* Detector::detect: the image as detect leaves it, the Detector with its
\* Canny buffers refilled, what each side's scan counted, and the verdict
DetectorDetect(d, img, checks) == Scored(d, CannyDetect(d.canny, img), checks)

(***************************************************************************)
(* lib.rs: the corner brackets.  A Point is (u32, u32).  a - b below zero  *)
(* panics in a build with overflow checks and wraps to a number above      *)
(* every coordinate of the model in a build without them.                  *)
(***************************************************************************)
\* LinePixels::new
LinePixelsNew(corners, weight) ==
    [ok |-> TRUE, top_left |-> corners[1], bottom_right |-> corners[2],
     weight |-> weight, line |-> 1, next |-> corners[1]]

\* get_line_pixels
get_line_pixels(corners, weight) == LinePixelsNew(corners, weight)

\* let line_length = match self.line { 1..=4 => ..., 5..=8 => ... }
LineLength(it) ==
    IF it.line <= 4 THEN (it.bottom_right[1] - it.top_left[1]) \div 4
    ELSE (it.bottom_right[2] - it.top_left[2]) \div 4

\* v > a - b and v < a - b in u32: "panic" where a - b goes below zero in a
\* build that checks, else "yes" or "no"
Above(v, a, b, checks) ==
    IF a < b THEN (IF checks THEN "panic" ELSE "no")
    ELSE IF v > a - b THEN "yes" ELSE "no"
Under(v, a, b, checks) ==
    IF a < b THEN (IF checks THEN "panic" ELSE "yes")
    ELSE IF v < a - b THEN "yes" ELSE "no"

\* one arm of the match of LinePixels::next: along moves along the line,
\* turn tells whether another row or column follows, across is its first
\* point and start the first point of the next line
Arm(it, along, moved, turn, across, start) ==
    IF along = "panic" THEN Failed
    ELSE IF along = "yes" THEN [it EXCEPT !.next = moved]
    ELSE IF turn = "panic" THEN Failed
    ELSE IF turn = "yes" THEN [it EXCEPT !.next = across]
    ELSE IF it.line = 8 THEN [it EXCEPT !.line = 9]
    ELSE [it EXCEPT !.line = it.line + 1, !.next = start]

YesNo(b) == IF b THEN "yes" ELSE "no"

\* the match of LinePixels::next: the iterator as the call leaves it, with
\* line 9 where the call returned None, or Failed
LinePixelsStep(it, checks) ==
    LET x == it.next[1]
        y == it.next[2]
        l == it.top_left[1]
        t == it.top_left[2]
        r == it.bottom_right[1]
        b == it.bottom_right[2]
        w == it.weight
        len == LineLength(it)
    IN  IF it.line = 1
        THEN Arm(it, YesNo(x < l + len), <<x + 1, y>>,
                 YesNo(y < t + w), <<l, y + 1>>, <<r - len, t>>)
        ELSE IF it.line = 2
        THEN Arm(it, YesNo(x < r), <<x + 1, y>>,
                 YesNo(y < t + w), <<r - len, y + 1>>, <<l, b>>)
        ELSE IF it.line = 3
        THEN Arm(it, YesNo(x < l + len), <<x + 1, y>>,
                 Above(y, b, w, checks), <<l, y - 1>>, <<r - len, b>>)
        ELSE IF it.line = 4
        THEN Arm(it, YesNo(x < r), <<x + 1, y>>,
                 Above(y, b, w, checks), <<r - len, y - 1>>, <<l, t + w>>)
        ELSE IF it.line = 5
        THEN Arm(it, YesNo(y < t + len), <<x, y + 1>>,
                 YesNo(x < l + w), <<x + 1, t + w>>, <<r, t + w>>)
        ELSE IF it.line = 6
        THEN Arm(it, YesNo(y < t + len), <<x, y + 1>>,
                 Above(x, r, w, checks), <<x - 1, t + w>>, <<l, b - len>>)
        ELSE IF it.line = 7
        THEN Arm(it, Under(y, b, w, checks), <<x, y + 1>>,
                 YesNo(x < l + w), <<x + 1, b - len>>, <<r, b - len>>)
        ELSE Arm(it, Under(y, b, w, checks), <<x, y + 1>>,
                 Above(x, r, w, checks), <<x - 1, b - len>>, it.next)

(***************************************************************************)
(* The geometry specification: the operations of data.rs applied to        *)
(* Rectangles over a small grid and to the Rectangles of data.rs's test.   *)
(***************************************************************************)
Coords == 0 .. MaxCoord
Points == Coords \X Coords
GridRects == {r \in Points \X Points : Valid(r)}
\* the Rectangles of tests::test_contains
TestRects == {<<<<5, 5>>, <<10, 10>>>>, <<<<6, 6>>, <<9, 9>>>>, <<<<4, 6>>, <<9, 9>>>>}
NoArg == [n |-> 0, b |-> NoRect]

GeomIdle == rect = NoRect /\ arg = NoArg /\ out = NoRect /\ flag = FALSE
CornersIdle == width = 0 /\ height = 0 /\ boundary = NoRect
DetectorIdle ==
    detector = Failed /\ frame = <<>> /\ sides = <<>> /\ verdict = FALSE
detvars == <<detector, frame, sides, verdict>>
WindowIdle == held = Failed /\ iter = Failed /\ yielded = <<>>
winvars == <<held, iter, yielded>>
CannyIdle == engine = Failed /\ before = <<>> /\ calls = 0 /\ seen = <<>>
canvars == <<engine, before, calls, seen>>

\* no Rectangle has been built
Init ==
    /\ op = "init"
    /\ GeomIdle
    /\ CornersIdle
    /\ DetectorIdle
    /\ WindowIdle
    /\ CannyIdle

\* a Rectangle has been built and no operation applied to it yet
Built == op \in {"new", "from_dimensions"} /\ rect # NoRect

\* Rectangle::new(top_left, bottom_right): the Rectangle becomes the one the
\* later operations are applied to, unless the assertion fails
New(top_left, bottom_right) ==
    /\ op = "init"
    /\ op' = "new"
    /\ out' = RectangleNew(top_left, bottom_right)
    /\ rect' = IF out' = Panic THEN NoRect ELSE out'
    /\ arg' = NoArg
    /\ flag' = FALSE
    /\ UNCHANGED <<width, height, boundary>>
    /\ UNCHANGED detvars
    /\ UNCHANGED canvars
    /\ UNCHANGED winvars

FromDimensions(w, h) ==
    /\ op = "init"
    /\ op' = "from_dimensions"
    /\ out' = from_dimensions(w, h)
    /\ rect' = IF out' = Panic THEN NoRect ELSE out'
    /\ arg' = NoArg
    /\ flag' = FALSE
    /\ UNCHANGED <<width, height, boundary>>
    /\ UNCHANGED detvars
    /\ UNCHANGED canvars
    /\ UNCHANGED winvars

Grow(n) ==
    /\ Built
    /\ op' = "grow"
    /\ out' = grow(rect, n)
    /\ arg' = [n |-> n, b |-> NoRect]
    /\ flag' = FALSE
    /\ UNCHANGED <<rect, width, height, boundary>>
    /\ UNCHANGED detvars
    /\ UNCHANGED canvars
    /\ UNCHANGED winvars

Shrink(n) ==
    /\ Built
    /\ op' = "shrink"
    /\ out' = shrink(rect, n)
    /\ arg' = [n |-> n, b |-> NoRect]
    /\ flag' = FALSE
    /\ UNCHANGED <<rect, width, height, boundary>>
    /\ UNCHANGED detvars
    /\ UNCHANGED canvars
    /\ UNCHANGED winvars

ClampedGrow(n, b) ==
    /\ Built
    /\ op' = "clamped_grow"
    /\ out' = clamped_grow(rect, n, b)
    /\ arg' = [n |-> n, b |-> b]
    /\ flag' = FALSE
    /\ UNCHANGED <<rect, width, height, boundary>>
    /\ UNCHANGED detvars
    /\ UNCHANGED canvars
    /\ UNCHANGED winvars

ClampedShrink(n, b) ==
    /\ Built
    /\ op' = "clamped_shrink"
    /\ out' = clamped_shrink(rect, n, b)
    /\ arg' = [n |-> n, b |-> b]
    /\ flag' = FALSE
    /\ UNCHANGED <<rect, width, height, boundary>>
    /\ UNCHANGED detvars
    /\ UNCHANGED canvars
    /\ UNCHANGED winvars

Contains(other) ==
    /\ Built
    /\ op' = "contains"
    /\ flag' = contains(rect, other)
    /\ arg' = [n |-> 0, b |-> other]
    /\ out' = NoRect
    /\ UNCHANGED <<rect, width, height, boundary>>
    /\ UNCHANGED detvars
    /\ UNCHANGED canvars
    /\ UNCHANGED winvars

Next ==
    \/ \E p, q \in Points : New(p, q)
    \/ \E r \in TestRects : New(r[1], r[2])
    \/ \E w, h \in 0 .. MaxCoord : FromDimensions(w, h)
    \/ \E n \in 0 .. MaxN : Grow(n)
    \/ \E n \in 0 .. MaxN : Shrink(n)
    \/ \E n \in 0 .. MaxN, b \in GridRects : ClampedGrow(n, b)
    \/ \E n \in 0 .. MaxN, b \in GridRects : ClampedShrink(n, b)
    \/ \E o \in GridRects \cup TestRects : Contains(o)

Spec == Init /\ [][Next]_vars

(***************************************************************************)
(* The boundary specification: get_corners applied to every frame size up  *)
(* to MaxDim x MaxDim.                                                     *)
(***************************************************************************)
Dims == 1 .. MaxDim

InitCorners ==
    /\ op = "init"
    /\ width \in Dims
    /\ height \in Dims
    /\ boundary = NoRect
    /\ GeomIdle
    /\ DetectorIdle
    /\ WindowIdle
    /\ CannyIdle

GetCorners ==
    /\ op = "init"
    /\ op' = "get_corners"
    /\ boundary' = get_corners(width, height)
    /\ UNCHANGED <<rect, arg, out, flag, width, height>>
    /\ UNCHANGED detvars
    /\ UNCHANGED canvars
    /\ UNCHANGED winvars

NextCorners == GetCorners

SpecCorners == InitCorners /\ [][NextCorners]_vars

(***************************************************************************)
(* The detector specification: a Detector is built for FrameW x FrameH     *)
(* frames, the caller captures a frame and hands it to detect.  A frame is *)
(* a sheet of one colour with a line in another along any of the four      *)
(* sides: the top line in the first row of the top band, the bottom line   *)
(* in the last row of the bottom band, the left and right lines likewise,  *)
(* each as long as its side, the top and bottom ones up to a gap.  A       *)
(* detect that panics ends the program: the state keeps what it held.      *)
(***************************************************************************)
\* Detector::builder().card_edge_width(0).detection_window_width(6): the
\* strips are one pixel wide and the bands three pixels either side
Builders ==
    {[DetectorBuilderDefault EXCEPT !.card_edge_width = Some(0),
                                    !.detection_window_width = Some(6)]}

\* a sheet the edge detector finds nothing on, lined in the edge colour, and
\* a sheet whose lines it has to find
Palettes ==
    {[paper |-> <<0, 0, 0, 255>>, ink |-> EDGE_COLOUR],
     [paper |-> <<255, 255, 0, 255>>, ink |-> <<255, 0, 0, 255>>]}

\* the positions left undrawn at the end of the top and bottom lines: none,
\* the most that leaves more than four fifths of the line, and one more
Gaps(d) ==
    {0, RectWidth(d.boundary) \div 5, RectWidth(d.boundary) \div 5 + 1}

Drawing(d, palette, drawn, gap) ==
    LET b == d.boundary
        o == d.outer_boundary
        w == d.canny.width
        Along(x) == x >= Left(b) /\ x < Right(b) - gap
        Down(y) == y >= Top(b) /\ y < Bottom(b)
        OnLine(x, y) ==
            \/ 1 \in drawn /\ y = Top(o) /\ Along(x)
            \/ 2 \in drawn /\ y = Bottom(o) - 1 /\ Along(x)
            \/ 3 \in drawn /\ x = Left(o) /\ Down(y)
            \/ 4 \in drawn /\ x = Right(o) - 1 /\ Down(y)
    IN  [i \in 1 .. w * d.canny.height |->
            IF OnLine((i - 1) % w, (i - 1) \div w)
            THEN palette.ink ELSE palette.paper]

Frames(d) ==
    {Drawing(d, palette, drawn, gap) :
        palette \in Palettes, drawn \in SUBSET Sides, gap \in Gaps(d)}

InitDetect ==
    /\ op = "init"
    /\ GeomIdle
    /\ CornersIdle
    /\ DetectorIdle
    /\ WindowIdle
    /\ CannyIdle

\* Detector::builder()...build(w, h)
BuildDetector(b, w, h) ==
    /\ op = "init"
    /\ detector' = Build(b, w, h)
    /\ op' = IF detector'.ok THEN "build" ELSE "panic"
    /\ UNCHANGED <<rect, arg, out, flag, width, height, boundary>>
    /\ UNCHANGED <<frame, sides, verdict>>
    /\ UNCHANGED winvars
    /\ UNCHANGED canvars

\* the caller has a frame to hand to detect
Capture(f) ==
    /\ op = "build"
    /\ op' = "frame"
    /\ frame' = f
    /\ UNCHANGED <<rect, arg, out, flag, width, height, boundary>>
    /\ UNCHANGED <<detector, sides, verdict>>
    /\ UNCHANGED winvars
    /\ UNCHANGED canvars

\* detector.detect(&mut frame), in a build with or without overflow checks
Detect(checks) ==
    /\ op = "frame"
    /\ \E r \in {DetectorDetect(detector, frame, checks)} :
           IF r.ok
           THEN /\ op' = "detect"
                /\ frame' = r.img
                /\ detector' = r.detector
                /\ sides' = r.sides
                /\ verdict' = r.verdict
                /\ before' = frame
           ELSE /\ op' = "panic"
                /\ UNCHANGED detvars
                /\ UNCHANGED before
    /\ UNCHANGED <<engine, calls, seen>>
    /\ UNCHANGED winvars
    /\ UNCHANGED <<rect, arg, out, flag, width, height, boundary>>

NextDetect ==
    \/ \E b \in Builders : BuildDetector(b, FrameW, FrameH)
    \/ op = "build" /\ \E f \in Frames(detector) : Capture(f)
    \/ \E checks \in BOOLEAN : Detect(checks)

SpecDetect == InitDetect /\ [][NextDetect]_vars

(***************************************************************************)
(* The default-configuration specification: Detector::builder().build(w,   *)
(* h) with no field set, for frame sizes from the smallest that build to   *)
(* the smallest with w > 40 and h > 40, and detect on sheets with no line, *)
(* the horizontal lines, the vertical lines, or all four; and for CardW x  *)
(* CardH frames, on which the strips stay inside the frame, a sheet with   *)
(* all four lines, one with a stripe down and one across the middle of the *)
(* frame, and one with the card's interior filled.                         *)
(***************************************************************************)
DefaultSizes ==
    {<<23, 33>>, <<24, 33>>, <<24, 34>>, <<25, 35>>, <<26, 37>>, <<30, 41>>,
     <<FrameW + 1, FrameW + 1>>}

Sheets(d) ==
    {Drawing(d, palette, drawn, 0) :
        palette \in Palettes, drawn \in {{}, {1, 2}, {3, 4}, Sides}}

Inked == [paper |-> <<255, 255, 0, 255>>, ink |-> <<255, 0, 0, 255>>]

\* a sheet with a stripe down the middle column and one across the middle row
Crossed(d) ==
    LET w == d.canny.width
        h == d.canny.height
    IN  [i \in 1 .. w * h |->
            IF (i - 1) % w = w \div 2 \/ (i - 1) \div w = h \div 2
            THEN Inked.ink ELSE Inked.paper]

\* a sheet with the points inside inner_boundary filled
Filled(d) ==
    LET w == d.canny.width
        n == d.inner_boundary
    IN  [i \in 1 .. w * d.canny.height |->
            IF /\ Left(n) <= (i - 1) % w /\ (i - 1) % w < Right(n)
               /\ Top(n) <= (i - 1) \div w /\ (i - 1) \div w < Bottom(n)
            THEN Inked.ink ELSE Inked.paper]

CardSheets(d) == {Drawing(d, Inked, Sides, 0), Crossed(d), Filled(d)}

NextDefault ==
    \/ \E size \in DefaultSizes :
           BuildDetector(DetectorBuilderDefault, size[1], size[2])
    \/ BuildDetector(DetectorBuilderDefault, CardW, CardH)
    \/ op = "build" /\ detector.canny.width < CardW
                    /\ \E f \in Sheets(detector) : Capture(f)
    \/ op = "build" /\ detector.canny.width = CardW
                    /\ \E f \in CardSheets(detector) : Capture(f)
    \/ \E checks \in BOOLEAN : Detect(checks)

SpecDefault == InitDetect /\ [][NextDefault]_vars

(***************************************************************************)
(* The build specification: DetectorBuilder::build(w, h) with the default  *)
(* detection window width, for every frame size from FrameW + 1 to FrameW  *)
(* + SpanW wide and from FrameW + 1 to FrameW + SpanH high.                *)
(***************************************************************************)
BuildSizes ==
    (FrameW + 1 .. FrameW + SpanW) \X (FrameW + 1 .. FrameW + SpanH)

WindowDefaults ==
    {DetectorBuilderDefault,
     [DetectorBuilderDefault EXCEPT !.card_edge_width = Some(0)]}

NextBuild ==
    \E b \in WindowDefaults, size \in BuildSizes :
        BuildDetector(b, size[1], size[2])

SpecBuild == InitDetect /\ [][NextBuild]_vars

(***************************************************************************)
(* The strip specification: the detector of the detector specification     *)
(* with card_edge_width 1, the widest whose strips stay inside a FrameW x  *)
(* FrameH frame, on sheets with any of the four lines drawn, whole or cut  *)
(* short.                                                                  *)
(***************************************************************************)
StripBuilders ==
    {[DetectorBuilderDefault EXCEPT !.card_edge_width = Some(1),
                                    !.detection_window_width = Some(6)]}

StripFrames(d) ==
    {Drawing(d, palette, drawn, gap) :
        palette \in Palettes, drawn \in SUBSET Sides,
        gap \in {0, RectWidth(d.boundary) \div 5 + 1}}

NextStrips ==
    \/ \E b \in StripBuilders : BuildDetector(b, FrameW, FrameH)
    \/ op = "build" /\ \E f \in StripFrames(detector) : Capture(f)
    \/ \E checks \in BOOLEAN : Detect(checks)

SpecStrips == InitDetect /\ [][NextStrips]_vars

(***************************************************************************)
(* The window specification: the caller builds a window of either shape,   *)
(* asks it for its gradient() or process() iterator and calls next() until *)
(* it returns None.  The windows are those over a small grid and the two   *)
(* of edge.rs's tests.  An iterator that does not end is followed up to    *)
(* x = MaxRun.                                                             *)
(***************************************************************************)
WinPoints == (0 .. MaxWinX) \X (0 .. MaxWinY)
WinRects == {r \in WinPoints \X WinPoints : Valid(r)}
\* the Rectangles of tests::test_rect_window and test_rect_in_rect_window
TestOuter == <<<<0, 0>>, <<10, 10>>>>
TestInner == <<<<2, 2>>, <<6, 6>>>>

InitWindow ==
    /\ op = "init"
    /\ GeomIdle
    /\ CornersIdle
    /\ DetectorIdle
    /\ WindowIdle
    /\ CannyIdle

\* RectangleInRectangleWindow::new(outer, inner)
NewFrameWindow(outer, inner) ==
    /\ op = "init"
    /\ held' = RectangleInRectangleWindowNew(outer, inner)
    /\ op' = IF held'.ok THEN "window" ELSE "panic"
    /\ UNCHANGED <<iter, yielded>>
    /\ UNCHANGED <<rect, arg, out, flag, width, height, boundary>>
    /\ UNCHANGED detvars
    /\ UNCHANGED canvars

\* RectangleWindow { rectangle }
NewRectangleWindow(rectangle) ==
    /\ op = "init"
    /\ held' = RectangleWindowOf(rectangle)
    /\ op' = "window"
    /\ UNCHANGED <<iter, yielded>>
    /\ UNCHANGED <<rect, arg, out, flag, width, height, boundary>>
    /\ UNCHANGED detvars
    /\ UNCHANGED canvars

\* window.gradient()
Gradient ==
    /\ op = "window"
    /\ iter' = WindowGradient(held)
    /\ op' = "gradient"
    /\ UNCHANGED <<held, yielded>>
    /\ UNCHANGED <<rect, arg, out, flag, width, height, boundary>>
    /\ UNCHANGED detvars
    /\ UNCHANGED canvars

\* window.process()
Process ==
    /\ op = "window"
    /\ iter' = WindowProcess(held)
    /\ op' = IF iter'.ok THEN "process" ELSE "panic"
    /\ UNCHANGED <<held, yielded>>
    /\ UNCHANGED <<rect, arg, out, flag, width, height, boundary>>
    /\ UNCHANGED detvars
    /\ UNCHANGED canvars

\* iterator.next(): Some(point) with self.next moved on, or None
IteratorCall(checks) ==
    /\ op \in {"gradient", "process", "next"}
    /\ IF iter.next = NoPoint
       THEN /\ op' = "done"
            /\ UNCHANGED <<iter, yielded>>
       ELSE /\ iter.next[1] <= MaxRun
            /\ \E n \in {WindowIteratorNext(iter, checks)} :
                   IF n = Panic
                   THEN /\ op' = "panic"
                        /\ UNCHANGED <<iter, yielded>>
                   ELSE /\ op' = "next"
                        /\ iter' = [iter EXCEPT !.next = n]
                        /\ yielded' = Append(yielded, iter.next)
    /\ UNCHANGED held
    /\ UNCHANGED <<rect, arg, out, flag, width, height, boundary>>
    /\ UNCHANGED detvars
    /\ UNCHANGED canvars

NextWindow ==
    \/ op = "init" /\ \E outer, inner \in WinRects :
                          NewFrameWindow(outer, inner)
    \/ NewFrameWindow(TestOuter, TestInner)
    \/ op = "init" /\ \E r \in WinRects \cup {TestOuter} :
                          NewRectangleWindow(r)
    \/ Gradient
    \/ Process
    \/ \E checks \in BOOLEAN : IteratorCall(checks)

SpecWindow == InitWindow /\ [][NextWindow]_vars

(***************************************************************************)
(* The bracket specification: the caller takes get_line_pixels(corners,    *)
(* weight) of lib.rs and calls next() on it until it returns None.  iter   *)
(* holds the LinePixels and yielded the Points returned so far.  The       *)
(* corners are those of lib.rs's test and every top_left of LineOrigins    *)
(* with every bottom_right up to MaxSide right of and below it.  A         *)
(* sequence that leaves the rectangle is followed up to MaxLine.           *)
(***************************************************************************)
TestCorners == <<<<2, 2>>, <<22, 22>>>>
TestWeight == 3
LineOrigins == {<<0, 0>>, <<2, 1>>}
LineCorners ==
    {<<o, <<o[1] + a, o[2] + b>>>> : o \in LineOrigins, a, b \in 0..MaxSide}

InitLines ==
    /\ op = "init"
    /\ GeomIdle
    /\ CornersIdle
    /\ DetectorIdle
    /\ WindowIdle
    /\ CannyIdle

\* let pixels = get_line_pixels(corners, weight)
GetLinePixels(corners, weight) ==
    /\ op = "init"
    /\ iter' = get_line_pixels(corners, weight)
    /\ op' = "lines"
    /\ UNCHANGED <<held, yielded>>
    /\ UNCHANGED <<rect, arg, out, flag, width, height, boundary>>
    /\ UNCHANGED detvars
    /\ UNCHANGED canvars

\* pixels.next()
LinePixelsNext(checks) ==
    /\ op \in {"lines", "pixel"}
    /\ iter.next[1] <= MaxLine
    /\ iter.next[2] <= MaxLine
    /\ \E n \in {LinePixelsStep(iter, checks)} :
           IF ~n.ok
           THEN /\ op' = "panic"
                /\ UNCHANGED <<iter, yielded>>
           ELSE IF n.line = 9
           THEN /\ op' = "none"
                /\ UNCHANGED <<iter, yielded>>
           ELSE /\ op' = "pixel"
                /\ iter' = n
                /\ yielded' = Append(yielded, iter.next)
    /\ UNCHANGED held
    /\ UNCHANGED <<rect, arg, out, flag, width, height, boundary>>
    /\ UNCHANGED detvars
    /\ UNCHANGED canvars

NextLines ==
    \/ GetLinePixels(TestCorners, TestWeight)
    \/ op = "init" /\ \E c \in LineCorners, w \in 0..MaxWeight :
                          GetLinePixels(c, w)
    \/ \E checks \in BOOLEAN : LinePixelsNext(checks)

SpecLines == InitLines /\ [][NextLines]_vars

(***************************************************************************)
(* The Canny specification: the caller builds a Canny with CannyBuilder,   *)
(* loads a picture of CannyW x CannyH pixels and calls detect on it up to  *)
(* MaxCalls times.  A picture is made of bands of colour across one axis;  *)
(* the rows above `split` take one list of colours, those below another.   *)
(***************************************************************************)
Black == <<0, 0, 0, 255>>
Blue == <<0, 0, 255, 255>>
Red == <<255, 0, 0, 255>>
Green == <<0, 200, 0, 255>>
Yellow == <<255, 255, 0, 255>>
Violet == <<200, 0, 200, 255>>

\* a ring three pixels thick around the middle of the frame
ThickRing ==
    RectangleInRectangleWindowNew(
        <<<<0, 0>>, <<CannyW, CannyH>>>>,
        <<<<3, 3>>, <<CannyW - 3, CannyH - 3>>>>)
\* a ring two pixels thick on its left
ThinRing ==
    RectangleInRectangleWindowNew(
        <<<<0, 0>>, <<CannyW, CannyH>>>>,
        <<<<2, 3>>, <<CannyW - 3, CannyH - 3>>>>)

\* a ring two pixels thick on its right
NarrowRing ==
    RectangleInRectangleWindowNew(
        <<<<0, 0>>, <<CannyW, CannyH>>>>,
        <<<<3, 3>>, <<CannyW - 2, CannyH - 3>>>>)

CannyBuilders ==
    {CannyBuilderNew(CannyW, CannyH),
     [CannyBuilderNew(CannyW, CannyH) EXCEPT !.line_colour = Some(Violet)],
     [CannyBuilderNew(CannyW, CannyH) EXCEPT !.line_colour = Some(EDGE_COLOUR)],
     [CannyBuilderWithWindow(CannyW, CannyH, ThickRing) EXCEPT
          !.line_colour = Some(Violet)],
     [CannyBuilderWithWindow(CannyW, CannyH, ThickRing) EXCEPT
          !.line_colour = Some(EDGE_COLOUR),
          !.low_threshold = Some(150), !.high_threshold = Some(200)],
     [CannyBuilderWithWindow(CannyW, CannyH, ThinRing) EXCEPT
          !.line_colour = Some(Violet)],
     CannyBuilderWithWindow(CannyW, CannyH, NarrowRing)}

\* the colour of the band v falls in: cuts are the first positions of the
\* second, third, ... band
BandColour(cuts, colours, v) ==
    colours[1 + Cardinality({j \in 1 .. Len(cuts) : cuts[j] <= v})]

Picture(p) ==
    [i \in 1 .. CannyW * CannyH |->
        LET x == (i - 1) % CannyW
            y == (i - 1) \div CannyW
            v == IF p.axis = "x" THEN x
                 ELSE IF p.axis = "y" THEN y
                 ELSE IF p.axis = "sum" THEN x + y
                 ELSE x + CannyH - y
        IN  BandColour(p.cuts, IF y < p.split THEN p.upper ELSE p.lower, v)]

Plain(axis, cuts, colours) ==
    [axis |-> axis, cuts |-> cuts, split |-> 0,
     upper |-> colours, lower |-> colours]

Pictures ==
    {Picture(p) : p \in
        {Plain("x", <<>>, <<Yellow>>),
         Plain("x", <<4>>, <<Black, Yellow>>),
         Plain("x", <<2>>, <<Yellow, Blue>>),
         Plain("x", <<CannyW - 2>>, <<Red, Yellow>>),
         Plain("y", <<2>>, <<Yellow, Black>>),
         Plain("y", <<2, 3>>, <<Black, Red, Yellow>>),
         Plain("y", <<CannyH - 3, CannyH - 2>>, <<Yellow, Green, Black>>),
         Plain("x", <<2, 3>>, <<Yellow, Red, Black>>),
         Plain("sum", <<CannyH>>, <<Black, Yellow>>),
         Plain("diff", <<CannyH>>, <<Yellow, Blue>>),
         [axis |-> "x", cuts |-> <<2>>, split |-> 4,
          upper |-> <<Black, Red>>, lower |-> <<Black, Yellow>>],
         [axis |-> "x", cuts |-> <<CannyW - 2>>, split |-> 4,
          upper |-> <<Yellow, Black>>, lower |-> <<Yellow, Green>>],
         [axis |-> "x", cuts |-> <<4, 5>>, split |-> 3,
          upper |-> <<Yellow, Black, Yellow>>,
          lower |-> <<Yellow, Green, Yellow>>],
         [axis |-> "x", cuts |-> <<4>>, split |-> 4,
          upper |-> <<Yellow, Black>>, lower |-> <<Black, Yellow>>]}}

InitCanny ==
    /\ op = "init"
    /\ GeomIdle
    /\ CornersIdle
    /\ DetectorIdle
    /\ WindowIdle
    /\ CannyIdle

\* CannyBuilder::new(w, h) or with_window(w, h, window), ... .build()
BuildCanny(b) ==
    /\ op = "init"
    /\ engine' = CannyBuild(b)
    /\ op' = "canny"
    /\ UNCHANGED <<before, calls, seen>>
    /\ UNCHANGED <<rect, arg, out, flag, width, height, boundary>>
    /\ UNCHANGED detvars
    /\ UNCHANGED winvars

\* the caller has a picture to hand to detect
Load(f) ==
    /\ op = "canny"
    /\ frame' = f
    /\ op' = "loaded"
    /\ UNCHANGED <<rect, arg, out, flag, width, height, boundary>>
    /\ UNCHANGED <<detector, sides, verdict>>
    /\ UNCHANGED winvars
    /\ UNCHANGED canvars

\* canny.detect(&mut frame)
CannyCall ==
    /\ op \in {"loaded", "marked"}
    /\ calls < MaxCalls
    /\ \E r \in {CannyDetect(engine, frame)} :
           IF r.ok
           THEN /\ op' = "marked"
                /\ frame' = r.img
                /\ engine' = r.canny
                /\ before' = frame
                /\ calls' = calls + 1
                /\ seen' = Append(seen, frame)
           ELSE /\ op' = "panic"
                /\ UNCHANGED <<frame, engine, before, calls, seen>>
    /\ UNCHANGED <<rect, arg, out, flag, width, height, boundary>>
    /\ UNCHANGED <<detector, sides, verdict>>
    /\ UNCHANGED winvars

NextCanny ==
    \/ op = "init" /\ \E b \in CannyBuilders : BuildCanny(b)
    \/ op = "canny" /\ \E f \in Pictures : Load(f)
    \/ CannyCall

SpecCanny == InitCanny /\ [][NextCanny]_vars

(***************************************************************************)
(* The frame-sequence specification: one Canny is handed a sequence of     *)
(* frames.  After a call of detect the caller either calls it again on the *)
(* frame it marked or hands it one of the pictures of Sequels.             *)
(***************************************************************************)
Sequels ==
    {Picture(p) : p \in
        {Plain("x", <<>>, <<Yellow>>),
         Plain("y", <<2, 3>>, <<Black, Red, Yellow>>),
         Plain("diff", <<CannyH>>, <<Yellow, Blue>>)}}

\* the caller has the next picture to hand to detect
LoadNext(f) ==
    /\ op = "marked"
    /\ calls < MaxCalls
    /\ frame' = f
    /\ op' = "loaded"
    /\ UNCHANGED <<rect, arg, out, flag, width, height, boundary>>
    /\ UNCHANGED <<detector, sides, verdict>>
    /\ UNCHANGED winvars
    /\ UNCHANGED canvars

NextFrames ==
    \/ op = "init" /\ \E b \in CannyBuilders : BuildCanny(b)
    \/ op = "canny" /\ \E f \in Pictures : Load(f)
    \/ op = "marked" /\ \E f \in Sequels : LoadNext(f)
    \/ CannyCall

SpecFrames == InitCanny /\ [][NextFrames]_vars

(***************************************************************************)
(* Properties of get_corners (SpecCorners).                                *)
(***************************************************************************)
TestBox == <<<<2, 2>>, <<38, 54>>>>
Computed == op = "get_corners"
\* the branch get_corners takes: the frame is wider than 5:7, so its height
\* limits the boundary
HeightLimited(w, h) == F32Gt(F32Div(F32FromInt(w), F32FromInt(h)), RATIO)

\* C4: get_corners depends only on the limiting dimension: one more pixel of
\* the other dimension leaves the boundary as it is, one pixel less of the
\* limiting dimension changes it; (40,56), (49,56) and (40,59) all give
\* [[2,2],[38,54]], (39,56) and (40,54) give another rectangle.
C4_LimitingDimension ==
    Computed =>
        /\ IF HeightLimited(width, height)
           THEN /\ get_corners(width + 1, height) = boundary
                /\ height > 1 => get_corners(width, height - 1) # boundary
           ELSE /\ get_corners(width, height + 1) = boundary
                /\ width > 1 => get_corners(width - 1, height) # boundary
        /\ <<width, height>> \in {<<40, 56>>, <<49, 56>>, <<40, 59>>} => boundary = TestBox
        /\ <<width, height>> \in {<<39, 56>>, <<40, 54>>} => boundary # TestBox

C4_Witness == Computed /\ width = 49 /\ height = 56 /\ boundary = TestBox

\* C5: for a frame wider and higher than 40 the boundary has positive width
\* and height and lies strictly inside the frame.
C5_StrictlyInsideFrame ==
    (Computed /\ width > 40 /\ height > 40) =>
        /\ Valid(boundary)
        /\ Left(boundary) > 0
        /\ Top(boundary) > 0
        /\ Right(boundary) < width
        /\ Bottom(boundary) < height

C5_Witness == Computed /\ width = 41 /\ height = 41 /\ Valid(boundary)

\* |a|
Abs(a) == IF a < 0 THEN 0 - a ELSE a
\* the margin get_corners insets by on every side
MarginOf(b) == Left(b)
\* There is a rectangle of exactly 5:7 whose width and height are each within
\* tol pixels of w and h: some real a has |w - 5a| <= tol and |h - 7a| <= tol.
RatioWithin(w, h, tol) == Abs(7 * w - 5 * h) <= 12 * tol

\* C6 as claimed: for a frame wider and higher than 40 the boundary's
\* width:height is 5:7 up to rounding, read generously: within two pixels
\* each way, one for each floored corner coordinate.
C6_BoundaryIsFiveToSeven ==
    (Computed /\ width > 40 /\ height > 40) =>
        RatioWithin(RectWidth(boundary), RectHeight(boundary), 2)

\* C6 as amended: the rectangle inscribed in the frame, before the margin is
\* taken off, is 5:7 up to rounding; the boundary is that rectangle less the
\* same margin m on all four sides, so 7*width - 5*height is off by 4m more.
C6_InscribedIsFiveToSeven ==
    (Computed /\ width > 40 /\ height > 40) =>
        LET m == MarginOf(boundary)
            w0 == Right(boundary) + m
            h0 == Bottom(boundary) + m
        IN  /\ RatioWithin(w0, h0, 1)
            /\ w0 <= width /\ h0 <= height
            /\ w0 = width \/ h0 = height
            /\ Top(boundary) = m
            /\ 20 * m <= w0 /\ w0 < 20 * (m + 1)
            /\ 7 * RectWidth(boundary) - 5 * RectHeight(boundary)
                 = 7 * w0 - 5 * h0 - 4 * m

C6_Witness ==
    /\ Computed /\ width > 40 /\ height > 40
    /\ RatioWithin(Right(boundary) + MarginOf(boundary),
                   Bottom(boundary) + MarginOf(boundary), 1)
    /\ ~RatioWithin(RectWidth(boundary), RectHeight(boundary), 2)

\* C7: every Rectangle the program constructs has bottom_right right of and
\* below top_left; here, the one get_corners returns.
C7_EveryRectangleValid == Computed => Valid(boundary)

(***************************************************************************)
(* Properties of the Rectangle operations (Spec).                          *)
(***************************************************************************)
Max2(a, b) == IF a > b THEN a ELSE b
Min2(a, b) == IF a < b THEN a ELSE b

\* r lies within b, both read as top_left / bottom_right corner pairs
Within(r, b) ==
    /\ Left(b) <= Left(r) /\ Top(b) <= Top(r)
    /\ Right(r) <= Right(b) /\ Bottom(r) <= Bottom(b)

\* r lies within the pixel coordinates of b: left .. right - 1, top .. bottom - 1
PixelWithin(r, b) ==
    /\ Left(b) <= Left(r) /\ Top(b) <= Top(r)
    /\ Right(r) <= Right(b) - 1 /\ Bottom(r) <= Bottom(b) - 1

\* C8: for r within bound and any n, clamped_grow and clamped_shrink each
\* return a Rectangle (no panic, no inversion) with no coordinate outside bound.
C8_ClampedStayWithinBound ==
    (op \in {"clamped_grow", "clamped_shrink"} /\ Within(rect, arg.b)) =>
        /\ out # Panic
        /\ Within(out, arg.b)

C10_ContainsIsStrict ==
    op = "contains" =>
        LET o == arg.b
            crossing == \/ Left(o) <= Left(rect) \/ Top(o) <= Top(rect)
                        \/ Right(o) >= Right(rect) \/ Bottom(o) >= Bottom(rect)
        IN  /\ flag = ~crossing
            /\ (rect = <<<<5, 5>>, <<10, 10>>>> /\ o = <<<<6, 6>>, <<9, 9>>>>) => flag
            /\ (rect = <<<<5, 5>>, <<10, 10>>>> /\ o = <<<<4, 6>>, <<9, 9>>>>) => ~flag

\* the two calls of tests::test_contains, and a rectangle sharing one edge
C10_Witness ==
    /\ op = "contains"
    /\ \/ rect = <<<<5, 5>>, <<10, 10>>>> /\ arg.b = <<<<6, 6>>, <<9, 9>>>> /\ flag
       \/ rect = <<<<5, 5>>, <<10, 10>>>> /\ arg.b = <<<<4, 6>>, <<9, 9>>>> /\ ~flag

(***************************************************************************)
(* Properties of Detector::detect (SpecDetect).                            *)
(***************************************************************************)
Detected == op = "detect"
SideLength(s) ==
    IF s <= 2 THEN RectWidth(detector.boundary)
    ELSE RectHeight(detector.boundary)
\* the sides whose score, hits / length, is above 0.8
Passing == {s \in Sides : 5 * sides[s].hits > 4 * SideLength(s)}
\* the sides with no edge pixel anywhere in their band, and those with one
\* at every position
Erased == {s \in Sides : sides[s].found = {}}
FullyHit == {s \in Sides : Cardinality(sides[s].found) = SideLength(s)}

\* C1: detect returns true if and only if at least three of the four side
\* scores it computed for the frame are strictly greater than 0.8.
C1_TrueIffThreeSidesPass ==
    Detected => (verdict <=> Cardinality(Passing) >= 3)

\* detect returned true with exactly three scores above 0.8, the fourth
\* side having been scanned and found short
C1_Witness ==
    /\ Detected
    /\ verdict
    /\ Cardinality(Passing) = 3
    /\ \E s \in Sides \ Passing : sides[s].hits > 0

\* C2: on each of the four sides the score is hits / length where only the
\* positions with an edge-coloured pixel in the side's band count as hits;
\* left and right are scored as top and bottom are.
C2_OnlyEdgePixelsCount ==
    Detected =>
        \A s \in Sides :
            /\ sides[s].hits = Cardinality(sides[s].found)
            /\ sides[s].score = Score(Cardinality(sides[s].found),
                                       SideLength(s))

\* C3: with one side erased and the other three hit at every position
\* detect returns true; with any two sides erased it returns false.
C3_ToleratesExactlyOneMissingSide ==
    Detected =>
        /\ (Cardinality(Erased) = 1 /\ Cardinality(FullyHit) = 3) => verdict
        /\ Cardinality(Erased) >= 2 => ~verdict

(***************************************************************************)
(* Properties of the windows (SpecWindow).                                 *)
(***************************************************************************)
Iterating == iter.ok /\ op \in {"gradient", "process", "next", "done"}
Exhausted == iter.ok /\ op = "done"
InRect(p, r) ==
    /\ Left(r) <= p[1] /\ p[1] < Right(r)
    /\ Top(r) <= p[2] /\ p[2] < Bottom(r)
Area(r) == RectWidth(r) * RectHeight(r)
\* the rectangle every point of a window lies in
Hull(win) == IF IsRectangleWindow(win) THEN win.rectangle ELSE win.outer
PointsOf(r) == (Left(r) .. Right(r) - 1) \X (Top(r) .. Bottom(r) - 1)
\* the member points of a window: those of its rectangle, or those of outer
\* that are not inner's
Member(p, win) ==
    IF IsRectangleWindow(win) THEN InRect(p, win.rectangle)
    ELSE InRect(p, win.outer) /\ ~InRect(p, win.inner)
Members(win) == {p \in PointsOf(Hull(win)) : Member(p, win)}
\* row-major order: y outer, x inner
Before(p, q) == p[2] < q[2] \/ (p[2] = q[2] /\ p[1] < q[1])
Yielded == {yielded[i] : i \in 1 .. Len(yielded)}

\* C11: gradient() yields exactly the member points of the window, each
\* once, in row-major order: what it has yielded so far are member points in
\* strictly growing row-major order, and when it ends they are all the
\* member points, as many as the rectangle's area (Filled) or outer's area
\* minus inner's (Frame)
C11_GradientYieldsMembersRowMajor ==
    (Iterating /\ iter.extent = "gradient") =>
        /\ \A i \in 1 .. Len(yielded) : Member(yielded[i], held)
        /\ \A i \in 1 .. Len(yielded) - 1 : Before(yielded[i], yielded[i + 1])
        /\ Exhausted =>
               /\ Yielded = Members(held)
               /\ Len(yielded) =
                      IF IsRectangleWindow(held) THEN Area(held.rectangle)
                      ELSE Area(held.outer) - Area(held.inner)

\* the Frame window of tests::test_rect_in_rect_window has yielded its 84
\* points
C11_Witness ==
    /\ Exhausted /\ iter.extent = "gradient"
    /\ ~IsRectangleWindow(held)
    /\ held.outer = TestOuter /\ held.inner = TestInner
    /\ Len(yielded) = 84

\* a point and its 8 neighbours
Around(p) == {<<p[1] + dx, p[2] + dy>> : dx \in -1 .. 1, dy \in -1 .. 1}
\* the gradient extent inset by one pixel on all sides
Inset(p, win) == \A q \in Around(p) : q[1] >= 0 /\ q[2] >= 0 /\ Member(q, win)
\* process() or a next() of its iterator panicked
ProcessPanicked ==
    op = "panic" /\ held.ok /\ (iter.ok => iter.extent = "process")

\* C16: process() yields exactly the points that, with all 8 of their
\* neighbours, are member points of the window: it does not panic, what it
\* has yielded so far are such points, and when it ends they are all of them
C16_ProcessYieldsInset ==
    /\ ~ProcessPanicked
    /\ (Iterating /\ iter.extent = "process") =>
           /\ \A i \in 1 .. Len(yielded) : Inset(yielded[i], held)
           /\ Exhausted =>
                  Yielded = {p \in Members(held) : Inset(p, held)}

\* C17: the sequences of gradient() and process() are finite and stay in
\* the window's outer rectangle.  Each next() yields one point or ends the
\* sequence, so the sequence is finite exactly if the points yielded are
\* bounded in number: no yielded point lies outside the outer rectangle and
\* there are at most as many as the rectangle has points
C17_SequencesFiniteWithinOuter ==
    Iterating =>
        /\ \A i \in 1 .. Len(yielded) : InRect(yielded[i], Hull(held))
        /\ Len(yielded) <= Area(Hull(held))

(***************************************************************************)
(* Properties of the default configuration (SpecDefault).                  *)
(***************************************************************************)
\* detect was called on a frame and panicked
DetectPanicked == op = "panic" /\ detector.ok /\ frame # <<>>

\* C12: with the default configuration, wherever build succeeds, detect
\* runs to completion: no pixel read or write outside the frame and no
\* coordinate subtraction below zero, whichever way the program is built
C12_DefaultDetectCompletes == ~DetectPanicked


(***************************************************************************)
(* Properties of Canny::detect (SpecCanny).                                *)
(***************************************************************************)
Marked == op = "marked"
PointOf(i) == <<(i - 1) % engine.width, (i - 1) \div engine.width>>
IndexOf(p) == p[2] * engine.width + p[1] + 1
\* the pixels the last call changed
Changed == {i \in 1 .. Len(frame) : frame[i] # before[i]}
\* the process extent: the points of the gradient extent whose eight
\* neighbours are points of it too
ProcessExtent == {p \in Members(engine.window) : Inset(p, engine.window)}
ThresholdsOrdered ==
    0 < engine.low_threshold /\ engine.low_threshold <= engine.high_threshold

\* C13: with 0 < low_threshold <= high_threshold, a call of Canny::detect
\* changes a pixel only by overwriting it with the line colour, and only at
\* a point of the window's process extent; every other pixel is as it was
C13_ChangesOnlyToLineColourInProcess ==
    (Marked /\ ThresholdsOrdered) =>
        \A extent \in {ProcessExtent} :
            \A i \in Changed :
                frame[i] = engine.line_colour /\ PointOf(i) \in extent

\* the pixels that hold the line colour
Lined(img) == {i \in 1 .. Len(img) : img[i] = engine.line_colour}

\* C14: calls of Canny::detect accumulate: a pixel that holds the line
\* colour before a call holds it after the call
C14_LineColourStays ==
    Marked => Lined(before) \subseteq Lined(frame)

\* detect is not idempotent: the second call on a frame marks pixels the
\* first call left alone, and keeps those the first call marked.  No picture
\* has a violet pixel, so those of `before` are the first call's
C14_Witness ==
    /\ Marked
    /\ calls = 2
    /\ engine.line_colour = Violet
    /\ Lined(before) # {}
    /\ Lined(frame) \ Lined(before) # {}

(***************************************************************************)
(* Properties of the diagnostic strips (SpecStrips).                       *)
(***************************************************************************)
\* the strip of C15 at position p of a side: card_edge_width pixels from the
\* boundary line towards the inside of the card, as indices into the frame
InwardStrip(side, p) ==
    LET ln == Line(detector, side, TRUE)
    IN  {(IF side = 1 THEN (ln.line + k) * ln.w + p
          ELSE IF side = 2 THEN (ln.line - k) * ln.w + p
          ELSE IF side = 3 THEN p * ln.w + ln.line + k
          ELSE p * ln.w + ln.line - k) + 1 : k \in 0 .. ln.cew - 1}
\* the positions sampled along a side
Sampled(side) ==
    LET ln == Line(detector, side, TRUE) IN ln.from .. ln.to - 1
\* green where the position was a hit, red where it was a miss
StripColour(side, p) ==
    IF p \in sides[side].found THEN HIT_COLOUR ELSE MISS_COLOUR
\* the pixels of the strips of C15, each with the colour of its position
StripClaims ==
    UNION {UNION {{<<i, StripColour(side, p)>> : i \in InwardStrip(side, p)} :
                      p \in Sampled(side)} : side \in Sides}

\* C15: at every sampled position of every side detect overwrites a strip
\* of exactly card_edge_width pixels across the side, from the boundary line
\* towards the inside of the card (down from the top line, up from the
\* bottom line, right from the left line, left from the right line), green
\* on a hit and red on a miss; the scans overwrite no other pixel, so any
\* other pixel is as it was handed in or holds the edge colour
C15_StripsRunInwardCardEdgeWidth ==
    Detected =>
        \A claims \in {StripClaims} :
            \A i \in 1 .. Len(frame) :
                \A allowed \in {{c[2] : c \in {cc \in claims : cc[1] = i}}} :
                    IF allowed = {}
                    THEN frame[i] \in {before[i], EDGE_COLOUR}
                    ELSE frame[i] \in allowed

(***************************************************************************)
(* Properties of hysteresis and non_maximum_suppression (SpecCanny).       *)
(***************************************************************************)
HighSquared == engine.high_threshold * engine.high_threshold
LowSquared == engine.low_threshold * engine.low_threshold
\* the points of the process extent whose suppressed squared magnitude the
\* last call found at or above the squared high threshold
Strong ==
    {p \in ProcessExtent : engine.supressed[IndexOf(p)] >= HighSquared}

\* C18: after Canny::detect every point of the process extent whose
\* suppressed squared magnitude is at least high_threshold squared holds
\* exactly the line colour, whatever colour it held before
C18_StrongPointsHoldLineColour ==
    Marked => \A p \in Strong : frame[IndexOf(p)] = engine.line_colour

\* the six neighbours of C19
SixAround(p) ==
    {<<p[1] + 1, p[2]>>, <<p[1] + 1, p[2] + 1>>, <<p[1], p[2] + 1>>,
     <<p[1] - 1, p[2] - 1>>, <<p[1] - 1, p[2]>>, <<p[1] - 1, p[2] + 1>>}
\* the points the last call overwrote
Overwritten == {PointOf(i) : i \in Changed}
\* the points a call may mark from a neighbour: not yet in the line colour
\* and at or above the squared low threshold
Weak ==
    {PointOf(i) : i \in {j \in 1 .. Len(before) :
                            /\ before[j] # engine.line_colour
                            /\ engine.supressed[j] >= LowSquared}}
\* the points reached from `from` through steps to one of the six
\* neighbours that is in `weak`
RECURSIVE Tracked6(_, _)
Tracked6(from, weak) ==
    LET more == {q \in weak \ from : \E p \in from : q \in SixAround(p)}
    IN  IF more = {} THEN from ELSE Tracked6(from \cup more, weak)

\* C19: hysteresis follows the six neighbours (x+1,y), (x+1,y+1), (x,y+1),
\* (x-1,y-1), (x-1,y), (x-1,y+1) and never (x,y-1) or (x+1,y-1): the points
\* a call marks are its seeds, the marked points at or above the squared
\* high threshold, and every point that was not in the line colour, is at
\* or above the squared low threshold and is one of the six neighbours of
\* a point marked in the same call
C19_MarksFollowSixNeighbours ==
    Marked =>
        \A weak \in {Weak} :
            Overwritten =
                Tracked6({p \in Overwritten :
                             engine.supressed[IndexOf(p)] >= HighSquared},
                         weak)

\* the two neighbours C20 names for each band of the direction
BandNeighbours(band, p) ==
    IF band = 0 THEN <<<<p[1] - 1, p[2]>>, <<p[1] + 1, p[2]>>>>
    ELSE IF band = 1
    THEN <<<<p[1] + 1, p[2] + 1>>, <<p[1] - 1, p[2] - 1>>>>
    ELSE IF band = 2 THEN <<<<p[1], p[2] - 1>>, <<p[1], p[2] + 1>>>>
    ELSE <<<<p[1] - 1, p[2] + 1>>, <<p[1] + 1, p[2] - 1>>>>
\* what C20 has non_maximum_suppression write at p
LocalMaximum(p, cmp) ==
    IF \/ engine.filtered[IndexOf(p)] < engine.filtered[IndexOf(cmp[1])]
       \/ engine.filtered[IndexOf(p)] < engine.filtered[IndexOf(cmp[2])]
    THEN 0 ELSE engine.filtered[IndexOf(p)]

\* C20: at every point of the process extent non_maximum_suppression
\* compares the squared magnitude with those of the two neighbours of the
\* direction's band: (x-1,y) and (x+1,y) below 22.5 or from 157.5 degrees,
\* (x+1,y+1) and (x-1,y-1) from 22.5 to 67.5, (x,y-1) and (x,y+1) from 67.5
\* to 112.5, (x-1,y+1) and (x+1,y-1) from 112.5 to 157.5; it writes 0 where
\* the point's is smaller than either and the point's own otherwise
C20_SuppressedAgainstBandNeighbours ==
    Marked =>
        \A p \in ProcessExtent :
            engine.supressed[IndexOf(p)] =
                LocalMaximum(p, BandNeighbours(
                                    DirectionBand(engine.gx[IndexOf(p)],
                                                  engine.gy[IndexOf(p)]), p))

(***************************************************************************)
(* Properties of get_line_pixels (SpecLines).                              *)
(***************************************************************************)
Bracketing == op \in {"lines", "pixel", "none"}
\* next() has returned None: yielded is the whole sequence
Drawn == op = "none"
Pixels == {yielded[i] : i \in 1 .. Len(yielded)}
Distance(a, b) == IF a < b THEN b - a ELSE a - b
\* p is at most a quarter of the side from..to away from one of its ends
QuarterFromEnd(v, from, to) ==
    \/ 4 * Distance(v, from) <= to - from
    \/ 4 * Distance(v, to) <= to - from
WithinBounds(p) ==
    /\ iter.top_left[1] <= p[1] /\ p[1] <= iter.bottom_right[1]
    /\ iter.top_left[2] <= p[2] /\ p[2] <= iter.bottom_right[2]
\* p is part of a corner bracket along the top or bottom border
AlongHorizontal(p) ==
    /\ \/ Distance(p[2], iter.top_left[2]) <= iter.weight
       \/ Distance(p[2], iter.bottom_right[2]) <= iter.weight
    /\ QuarterFromEnd(p[1], iter.top_left[1], iter.bottom_right[1])
\* p is part of a corner bracket along the left or right border
AlongVertical(p) ==
    /\ \/ Distance(p[1], iter.top_left[1]) <= iter.weight
       \/ Distance(p[1], iter.bottom_right[1]) <= iter.weight
    /\ QuarterFromEnd(p[2], iter.top_left[2], iter.bottom_right[2])
BracketPixel(p) == WithinBounds(p) /\ (AlongHorizontal(p) \/ AlongVertical(p))
\* per border and corner, the pixel a quarter-side from the corner on the
\* border and the one after it
QuarterPixels ==
    LET l == iter.top_left[1]
        t == iter.top_left[2]
        r == iter.bottom_right[1]
        b == iter.bottom_right[2]
        h == (r - l) \div 4
        v == (b - t) \div 4
    IN  {<<<<l + h, t>>, <<l + h + 1, t>>>>, <<<<r - h, t>>, <<r - h - 1, t>>>>,
         <<<<l + h, b>>, <<l + h + 1, b>>>>, <<<<r - h, b>>, <<r - h - 1, b>>>>,
         <<<<l, t + v>>, <<l, t + v + 1>>>>, <<<<l, b - v>>, <<l, b - v - 1>>>>,
         <<<<r, t + v>>, <<r, t + v + 1>>>>, <<<<r, b - v>>, <<r, b - v - 1>>>>}
TestDrawn ==
    /\ Drawn
    /\ <<iter.top_left, iter.bottom_right>> = TestCorners
    /\ iter.weight = TestWeight

\* C21: get_line_pixels(corners, weight) yields only corner-bracket pixels
\* and its sequence is finite: every yielded pixel is inside the rectangle,
\* within weight of a border and within a quarter of that border's length of
\* a corner; none of the eight lines is longer than the rectangle's points;
\* once it has ended, on each border the pixel a quarter-side from each
\* corner has been yielded and the one after it has not; for ((2,2),(22,22))
\* and weight 3, (2,2), (7,2), (2,7) are yielded and (8,2), (2,8), (6,6) not
C21_OnlyCornerBrackets ==
    /\ (Bracketing /\ iter.ok) =>
           /\ \A i \in 1 .. Len(yielded) : BracketPixel(yielded[i])
           /\ Len(yielded) <=
                  8 * (iter.bottom_right[1] - iter.top_left[1] + 1)
                    * (iter.bottom_right[2] - iter.top_left[2] + 1)
    /\ Drawn =>
           \A q \in QuarterPixels : q[1] \in Pixels /\ q[2] \notin Pixels
    /\ TestDrawn =>
           /\ {<<2, 2>>, <<7, 2>>, <<2, 7>>} \subseteq Pixels
           /\ {<<8, 2>>, <<2, 8>>, <<6, 6>>} \cap Pixels = {}

(***************************************************************************)
(* Properties of a Canny handed a sequence of frames (SpecFrames).         *)
(***************************************************************************)
\* a Canny as Canny::new leaves it, with the parameters and window of engine
Fresh ==
    CannyNew(engine.width, engine.height, engine.low_threshold,
             engine.high_threshold, engine.line_colour, engine.window)

\* C22: buffer reuse leaks nothing between frames: after every call of
\* detect by one Canny, whatever frames it was handed before, the frame is
\* the one a freshly constructed Canny with the same parameters and window
\* makes of the frame handed to this call
C22_FrameAsFromFreshEngine ==
    Marked =>
        \A r \in {CannyDetect(Fresh, before)} : r.ok /\ r.img = frame

\* the second frame is another picture than the first, both calls marked
\* pixels and the buffers the first call left differ from those of the second
C22_Witness ==
    /\ Marked
    /\ calls = 2
    /\ seen[2] \in Sequels
    /\ seen[1] # seen[2]
    /\ Changed # {}
    /\ \A r \in {CannyDetect(Fresh, seen[1])} :
           /\ r.ok
           /\ r.img # seen[1]
           /\ r.canny.filtered # engine.filtered
           /\ r.canny.supressed # engine.supressed

(***************************************************************************)
(* Properties of the card's interior (SpecDefault).                        *)
(***************************************************************************)
\* the pixels inside inner_boundary
Interior ==
    {i \in 1 .. Len(frame) :
        LET x == (i - 1) % detector.canny.width
            y == (i - 1) \div detector.canny.width
        IN  /\ Left(detector.inner_boundary) <= x
            /\ x < Right(detector.inner_boundary)
            /\ Top(detector.inner_boundary) <= y
            /\ y < Bottom(detector.inner_boundary)}

\* C23: for a Detector built with the default configuration, detect leaves
\* every pixel inside inner_boundary as it was: neither the edge marks nor
\* the diagnostic strips touch the card's interior
C23_InteriorUntouched ==
    Detected => \A i \in Interior : frame[i] = before[i]

\* detect ran to its end on a frame with edges inside inner_boundary, and
\* marked edges and put strips elsewhere
C23_Witness ==
    /\ Detected
    /\ Interior # {}
    /\ \E i \in Interior : before[i] = Inked.ink
    /\ \E i \in Interior : before[i] = Inked.paper
    /\ \E i \in 1 .. Len(frame) : frame[i] = EDGE_COLOUR
    /\ \E i \in 1 .. Len(frame) : frame[i] \in {HIT_COLOUR, MISS_COLOUR}

(***************************************************************************)
(* Properties of DetectorBuilder::build (SpecBuild).                       *)
(***************************************************************************)
DefaultBuilt == op = "build"
\* outer_boundary lies within the frame's pixel coordinates
OuterInFrame ==
    /\ 0 <= Left(detector.outer_boundary)
    /\ 0 <= Top(detector.outer_boundary)
    /\ Right(detector.outer_boundary) <= detector.canny.width - 1
    /\ Bottom(detector.outer_boundary) <= detector.canny.height - 1
\* outer_boundary strictly contains the boundary but for the bottom edges,
\* which may coincide
OuterAroundBoundary ==
    /\ Left(detector.outer_boundary) < Left(detector.boundary)
    /\ Top(detector.outer_boundary) < Top(detector.boundary)
    /\ Right(detector.outer_boundary) > Right(detector.boundary)
    /\ Bottom(detector.outer_boundary) >= Bottom(detector.boundary)

\* C24 as stated: for every frame size with w > 40 and h > 40 and the
\* default detection window width, build succeeds, outer_boundary lies
\* within the frame's pixel coordinates, outer_boundary strictly contains
\* the ideal boundary and the ideal boundary strictly contains
\* inner_boundary, so that the Frame window's precondition holds
C24_BuildNestsStrictly ==
    /\ op # "panic"
    /\ DefaultBuilt =>
           /\ OuterInFrame
           /\ contains(detector.outer_boundary, detector.boundary)
           /\ contains(detector.boundary, detector.inner_boundary)
           /\ contains(detector.outer_boundary, detector.inner_boundary)

\* C24, amended: for every frame size with w > 40 and h > 40 and the
\* default detection window width, build succeeds, outer_boundary lies
\* within the frame's pixel coordinates, outer_boundary contains the ideal
\* boundary, strictly on the left, top and right while the bottom edges may
\* coincide, and the ideal boundary strictly contains inner_boundary, so
\* that the Frame window's precondition holds
C24_BuildNests ==
    /\ op # "panic"
    /\ DefaultBuilt =>
           /\ OuterInFrame
           /\ OuterAroundBoundary
           /\ contains(detector.boundary, detector.inner_boundary)
           /\ contains(detector.outer_boundary, detector.inner_boundary)

\* build succeeded for a frame on which outer_boundary is clamped to the
\* last row, where the boundary's bottom edge lies
C24_Witness ==
    /\ DefaultBuilt
    /\ detector.canny.width > 40
    /\ detector.canny.height > 40
    /\ Bottom(detector.outer_boundary) = detector.canny.height - 1
    /\ Bottom(detector.boundary) = detector.canny.height - 1
    /\ detector.canny.window.ok

=========================================================================
